---------------------------- MODULE StoreProofs ----------------------------
(***************************************************************************)
(* For any connections, runs, artifacts and workloads: nothing half done   *)
(* is visible or kept, and each commit publishes one operation.            *)
(* Then the migrations, by any number of processes: what is recorded is    *)
(* there.                                                                  *)
(***************************************************************************)
EXTENDS StoreConnections, Migrations, TLAPS

\* What every operation keeps of a database.
Sound(d) ==
  /\ d \in Database
  /\ \A row \in d.canonical : \E receipt \in d.health : receipt[1] = row[1]
  /\ Keys(d.accepts) \subseteq d.profiles
  /\ d.state = d.events

\* OnlyPlainRowsMore, field by field.
Fields ==
  {"runs", "state", "events", "attested", "profiles", "accepts", "staging", "canonical",
   "health", "talks", "excerpts", "cited"}

MorePlainRows(old, new) ==
  /\ old.runs \subseteq new.runs /\ old.attested \subseteq new.attested
  /\ old.profiles \subseteq new.profiles /\ old.accepts \subseteq new.accepts
  /\ new.state = old.state /\ new.events = old.events /\ new.staging = old.staging
  /\ new.canonical = old.canonical /\ new.health = old.health /\ new.talks = old.talks
  /\ new.excerpts = old.excerpts /\ new.cited = old.cited

\* The two say the same of a database.
LEMMA FieldByField ==
  ASSUME NEW old \in Database, NEW new
  PROVE  OnlyPlainRowsMore(old, new) <=> MorePlainRows(old, new)
<1>1. DOMAIN old = Fields
  BY DEF Database, Fields
<1>2. OnlyPlainRowsMore(old, new) <=>
        \A f \in Fields : IF f \in PlainRows THEN old[f] \subseteq new[f] ELSE new[f] = old[f]
  BY <1>1 DEF OnlyPlainRowsMore
<1>. QED  BY <1>2 DEF Fields, PlainRows, MorePlainRows

\* An operation and what it has been given and has read.
Ready(k) ==
  /\ k.run \in Runs
  /\ k.op \in AllCalls \ {"RESUME"}
  /\ k.op = "STAGE" => k.id \in Artifacts
  /\ k.op # "STAGE" => k.id \in Ids
  /\ k.op = "COMMIT" => k.seen \subseteq Artifacts
  /\ k.op = "EXCERPT" => k.seen \subseteq Ids

\* What an operation does to a database that accepts it keeps it sound.
LEMMA AppliedIsSound ==
  ASSUME NEW d, Sound(d), NEW k, Ready(k), Accepted(k, d)
  PROVE  Sound(Applied(k, d))
<1>. DEFINE r == k.run
            row == {<<k.run, k.id>>}
<1>1. d \in Database /\ k.run \in Runs
  BY DEF Sound, Ready
<1>2. CASE k.op = "CREATE"
  <2>1. Applied(k, d) = [d EXCEPT !.runs = @ \cup {r}]
    BY <1>2 DEF Applied
  <2>. QED  BY <1>1, <2>1 DEF Sound, Database
<1>3. CASE k.op = "ATTEST"
  <2>1. Applied(k, d) = [d EXCEPT !.attested = @ \cup row] /\ row \subseteq Runs \X Ids
    BY <1>3 DEF Applied, Ready
  <2>. QED  BY <1>1, <2>1 DEF Sound, Database
<1>4. CASE k.op = "PROFILE"
  <2>1. Applied(k, d) = [d EXCEPT !.profiles = @ \cup {k.id}] /\ k.id \in Ids
    BY <1>4 DEF Applied, Ready
  <2>. QED  BY <1>1, <2>1 DEF Sound, Database
<1>5. CASE k.op = "ACCEPT"
  <2>1. Applied(k, d) = [d EXCEPT !.accepts = @ \cup row] /\ row \subseteq Runs \X Ids /\ k.id \in d.profiles
    BY <1>5 DEF Applied, Ready, Accepted
  <2>2. Keys(d.accepts \cup row) \subseteq d.profiles
    BY <2>1 DEF Sound, Keys
  <2>3. d.accepts \cup row \subseteq Runs \X Ids
    BY <1>1, <2>1 DEF Database
  <2>4. Applied(k, d) \in Database
    BY <1>1, <2>1, <2>3 DEF Database
  <2>5. Applied(k, d).accepts = d.accepts \cup row /\ Applied(k, d).profiles = d.profiles
    BY <1>1, <2>1 DEF Database
  <2>6. /\ Applied(k, d).canonical = d.canonical /\ Applied(k, d).health = d.health
        /\ Applied(k, d).state = d.state /\ Applied(k, d).events = d.events
    BY <1>1, <2>1 DEF Database
  <2>. QED  BY <2>2, <2>4, <2>5, <2>6 DEF Sound
<1>6. CASE k.op = "STAGE"
  <2>1. Applied(k, d) = [d EXCEPT !.staging = @ \cup row] /\ row \subseteq Runs \X Artifacts
    BY <1>6 DEF Applied, Ready
  <2>. QED  BY <1>1, <2>1 DEF Sound, Database
<1>7. CASE k.op = "COMMIT"
  <2>1. Applied(k, d) = [d EXCEPT !.health = @ \cup row,
                                  !.canonical = @ \cup ({r} \X k.seen),
                                  !.staging = @ \ Of(r, @)]
    BY <1>7 DEF Applied, AppliedCommit
  <2>2. row \subseteq Runs \X Ids /\ ({r} \X k.seen) \subseteq Runs \X Artifacts
    BY <1>7 DEF Ready
  <2>. DEFINE H == d.health \cup row
              C == d.canonical \cup ({r} \X k.seen)
              G == d.staging \ Of(r, d.staging)
  <2>sets. /\ H \subseteq Runs \X Ids
        /\ C \subseteq Runs \X Artifacts
        /\ G \subseteq Runs \X Artifacts
    BY <1>1, <2>2 DEF Database
  <2>whole. Applied(k, d) = [d EXCEPT !.health = H, !.canonical = C, !.staging = G]
    BY <1>1, <2>1 DEF Database
  <2>. HIDE DEF H, C, G
  <2>. DEFINE d1 == [d EXCEPT !.health = H]
              d2 == [d1 EXCEPT !.canonical = C]
  <2>3. Applied(k, d) \in Database
    <3>1. d1 \in Database
      BY <1>1, <2>sets DEF Database
    <3>2. Applied(k, d) = [d2 EXCEPT !.staging = G]
      BY <2>whole
    <3>. HIDE DEF d1
    <3>3. d2 \in Database
      BY <2>sets, <3>1 DEF Database
    <3>. HIDE DEF d2
    <3>. QED  BY <2>sets, <3>2, <3>3 DEF Database
  <2>fields. /\ Applied(k, d).health = H /\ Applied(k, d).canonical = C
        /\ Applied(k, d).accepts = d.accepts /\ Applied(k, d).profiles = d.profiles
        /\ Applied(k, d).state = d.state /\ Applied(k, d).events = d.events
    BY <1>1, <2>whole DEF Database
  <2>4. \A a \in d.canonical \cup ({r} \X k.seen) : \E receipt \in d.health \cup row : receipt[1] = a[1]
    <3>1. \A a \in {r} \X k.seen : <<k.run, k.id>>[1] = a[1]
      OBVIOUS
    <3>. QED  BY <3>1 DEF Sound
  <2>. QED  BY <2>3, <2>fields, <2>4 DEF Sound, H, C
<1>8. CASE k.op = "CONVERSE"
  <2>1. Applied(k, d) = [d EXCEPT !.talks = @ \cup {r}]
    BY <1>8 DEF Applied
  <2>. QED  BY <1>1, <2>1 DEF Sound, Database
<1>9. CASE k.op = "EXCERPT"
  <2>1. Applied(k, d) = [d EXCEPT !.excerpts = @ \cup row, !.cited[r] = Cited(k)]
    BY <1>9 DEF Applied
  <2>2. row \subseteq Runs \X Ids /\ Cited(k) \subseteq Ids
    BY <1>9 DEF Ready, Cited
  <2>. DEFINE E == d.excerpts \cup row
              T == [d.cited EXCEPT ![r] = Cited(k)]
  <2>3. E \subseteq Runs \X Ids /\ T \in [Runs -> SUBSET Ids]
    BY <1>1, <2>2 DEF Database
  <2>4. Applied(k, d) = [d EXCEPT !.excerpts = E, !.cited = T]
    BY <1>1, <2>1 DEF Database
  <2>. DEFINE d1 == [d EXCEPT !.excerpts = E]
  <2>. HIDE DEF E, T
  <2>5. d1 \in Database
    BY <1>1, <2>3 DEF Database
  <2>6. Applied(k, d) = [d1 EXCEPT !.cited = T]
    BY <2>4
  <2>7. Applied(k, d) \in Database
    <3>. HIDE DEF d1
    <3>. QED  BY <2>3, <2>5, <2>6 DEF Database
  <2>8. /\ Applied(k, d).health = d.health /\ Applied(k, d).canonical = d.canonical
        /\ Applied(k, d).accepts = d.accepts /\ Applied(k, d).profiles = d.profiles
        /\ Applied(k, d).state = d.state /\ Applied(k, d).events = d.events
    BY <1>1, <2>4 DEF Database
  <2>. QED  BY <2>7, <2>8 DEF Sound
<1>10. CASE k.op = "TRANSITION"
  <2>1. Applied(k, d) = [d EXCEPT !.events[r] = @ + 1, !.state[r] = @ + 1] /\ d.state[r] < MaxEvents
    BY <1>10 DEF Applied, Accepted
  <2>2. d.state = d.events /\ d.state \in [Runs -> 0..MaxEvents]
    BY DEF Sound, Database
  <2>3. d.state[r] + 1 \in 0..MaxEvents
    BY <1>1, <2>1, <2>2, BoundAssumption
  <2>4. /\ Applied(k, d).events = [d.events EXCEPT ![r] = @ + 1]
        /\ Applied(k, d).state = [d.state EXCEPT ![r] = @ + 1]
    BY <1>1, <2>1 DEF Database
  <2>5. Applied(k, d).events = Applied(k, d).state
    BY <2>2, <2>4
  <2>6. Applied(k, d).state \in [Runs -> 0..MaxEvents]
    BY <2>2, <2>3, <2>4
  <2>. DEFINE N == [d.state EXCEPT ![r] = @ + 1]
  <2>7. N \in [Runs -> 0..MaxEvents] /\ Applied(k, d) = [d EXCEPT !.events = N, !.state = N]
    BY <1>1, <2>1, <2>2, <2>4, <2>6 DEF Database
  <2>. HIDE DEF N
  <2>8. Applied(k, d) \in Database
    BY <1>1, <2>7 DEF Database
  <2>9. /\ Applied(k, d).canonical = d.canonical /\ Applied(k, d).health = d.health
        /\ Applied(k, d).accepts = d.accepts /\ Applied(k, d).profiles = d.profiles
    BY <1>1, <2>7 DEF Database
  <2>. QED  BY <2>5, <2>8, <2>9 DEF Sound
<1>11. CASE k.op = "RESET"
  <2>. DEFINE gone == Of(r, d.accepts)
  <2>1. Applied(k, d) = AppliedReset(r, d) /\ SharedProfiles(r, d) = {}
    BY <1>11 DEF Applied, Accepted
  <2>2. AppliedReset(r, d) \in Database
    BY <1>1, BoundAssumption DEF AppliedReset, Database
  <2>3. Keys(d.accepts \ gone) \subseteq d.profiles \ Keys(gone)
    BY <2>1 DEF Sound, SharedProfiles, Keys
  <2>4. \A a \in d.canonical \ Of(r, d.canonical) : \E receipt \in d.health \ Of(r, d.health) : receipt[1] = a[1]
    BY DEF Sound, Of
  <2>5. [d.state EXCEPT ![r] = 0] = [d.events EXCEPT ![r] = 0]
    BY DEF Sound
  <2>6. /\ AppliedReset(r, d).canonical = d.canonical \ Of(r, d.canonical)
        /\ AppliedReset(r, d).health = d.health \ Of(r, d.health)
        /\ AppliedReset(r, d).accepts = d.accepts \ gone
        /\ AppliedReset(r, d).profiles = d.profiles \ Keys(gone)
        /\ AppliedReset(r, d).state = [d.state EXCEPT ![r] = 0]
        /\ AppliedReset(r, d).events = [d.events EXCEPT ![r] = 0]
    BY DEF AppliedReset
  <2>. HIDE DEF gone
  <2>. QED  BY <2>1, <2>2, <2>3, <2>4, <2>5, <2>6 DEF Sound
<1>. QED
  BY <1>2, <1>3, <1>4, <1>5, <1>6, <1>7, <1>8, <1>9, <1>10, <1>11 DEF Ready, AllCalls

\* A plain or scoped insert needs no row to be there to be well formed, and
\* adds to a database what it adds to a larger one.
LEMMA InsertsAreMonotone ==
  ASSUME NEW k, Ready(k), k.op \in Plain \cup Scoped, NEW d \in Database, NEW e \in Database,
         OnlyPlainRowsMore(d, e)
  PROVE  /\ OnlyPlainRowsMore(Applied(k, d), Applied(k, e))
         /\ k.op \in Plain => OnlyPlainRowsMore(d, Applied(k, e))
<1>. DEFINE row == {<<k.run, k.id>>}
<1>0. MorePlainRows(d, e)
  BY FieldByField
<1>1. CASE k.op = "CREATE"
  <2>1. /\ Applied(k, d) = [d EXCEPT !.runs = @ \cup {k.run}]
        /\ Applied(k, e) = [e EXCEPT !.runs = @ \cup {k.run}]
    BY <1>1 DEF Applied
  <2>2. Applied(k, d) \in Database
    BY <2>1 DEF Ready, Database
  <2>3. MorePlainRows(Applied(k, d), Applied(k, e)) /\ MorePlainRows(d, Applied(k, e))
    BY <1>0, <2>1 DEF MorePlainRows, Database
  <2>. QED  BY <2>2, <2>3, FieldByField
<1>2. CASE k.op = "ATTEST"
  <2>1. /\ Applied(k, d) = [d EXCEPT !.attested = @ \cup row]
        /\ Applied(k, e) = [e EXCEPT !.attested = @ \cup row]
        /\ row \subseteq Runs \X Ids
    BY <1>2 DEF Applied, Ready
  <2>2. Applied(k, d) \in Database
    BY <2>1 DEF Database
  <2>3. MorePlainRows(Applied(k, d), Applied(k, e)) /\ MorePlainRows(d, Applied(k, e))
    BY <1>0, <2>1 DEF MorePlainRows, Database
  <2>. QED  BY <2>2, <2>3, FieldByField
<1>3. CASE k.op = "PROFILE"
  <2>1. /\ Applied(k, d) = [d EXCEPT !.profiles = @ \cup {k.id}]
        /\ Applied(k, e) = [e EXCEPT !.profiles = @ \cup {k.id}]
        /\ k.id \in Ids
    BY <1>3 DEF Applied, Ready
  <2>2. Applied(k, d) \in Database
    BY <2>1 DEF Database
  <2>3. MorePlainRows(Applied(k, d), Applied(k, e)) /\ MorePlainRows(d, Applied(k, e))
    BY <1>0, <2>1 DEF MorePlainRows, Database
  <2>. QED  BY <2>2, <2>3, FieldByField
<1>4. CASE k.op = "ACCEPT"
  <2>1. /\ Applied(k, d) = [d EXCEPT !.accepts = @ \cup row]
        /\ Applied(k, e) = [e EXCEPT !.accepts = @ \cup row]
        /\ row \subseteq Runs \X Ids
    BY <1>4 DEF Applied, Ready
  <2>2. Applied(k, d) \in Database
    BY <2>1 DEF Database
  <2>3. MorePlainRows(Applied(k, d), Applied(k, e)) /\ MorePlainRows(d, Applied(k, e))
    BY <1>0, <2>1 DEF MorePlainRows, Database
  <2>. QED  BY <2>2, <2>3, FieldByField
<1>5. CASE k.op = "STAGE"
  <2>1. /\ Applied(k, d) = [d EXCEPT !.staging = @ \cup row]
        /\ Applied(k, e) = [e EXCEPT !.staging = @ \cup row]
        /\ row \subseteq Runs \X Artifacts
    BY <1>5 DEF Applied, Ready
  <2>2. Applied(k, d) \in Database
    BY <2>1 DEF Database
  <2>3. MorePlainRows(Applied(k, d), Applied(k, e))
    BY <1>0, <2>1 DEF MorePlainRows, Database
  <2>4. k.op \notin Plain
    BY <1>5 DEF Plain
  <2>. QED  BY <2>2, <2>3, <2>4, FieldByField
<1>. QED  BY <1>1, <1>2, <1>3, <1>4, <1>5 DEF Plain, Scoped

-----------------------------------------------------------------------------
(***************************************************************************)
(* The inductive invariant.                                                *)
(***************************************************************************)
Locks == {"NONE", "OPEN", "READ", "WRITE", "PENDING"}

Results == {"NONE", "OK", "RAISED", "HIGH-WATER MISMATCH"}

Phases == {"IDLE", "READ", "READ EVENTS", "EXECUTE", "COMMIT"}

CallType ==
  [op : AllCalls \cup {"NONE"}, run : Runs \cup {"NONE"}, id : Artifacts \cup Ids \cup {"NONE"},
   phase : Phases, seen : SUBSET (Artifacts \cup Ids \cup Nat), result : Results]

\* An operation has what its phase goes on with.
Underway(k) ==
  /\ k \in CallType
  /\ k.op \in load.calls \cup {"NONE"}
  /\ k.phase # "IDLE" => k.run \in Runs /\ (IF k.op = "STAGE" THEN k.id \in Artifacts ELSE k.id \in Ids)
  /\ k.phase = "READ" => k.op \in Prereads
  /\ k.phase = "READ EVENTS" => k.op = "RESUME"
  /\ k.phase \in {"EXECUTE", "COMMIT"} => Ready(k)

Calls == call \in [Conns -> CallType] /\ \A c \in Conns : Underway(call[c])

OneWriter == \A c, o \in Conns : Writing(c) /\ Writing(o) => c = o

\* What the one open transaction that has written may hold.
WrittenBy(c) ==
  IF call[c].phase # "COMMIT" THEN OnlyPlainRowsMore(db, work)
  ELSE IF call[c].op \in Explicit THEN work = Applied(call[c], db)
  ELSE /\ OnlyPlainRowsMore(Applied(call[c], db), work)
       /\ call[c].op \in Plain => OnlyPlainRowsMore(db, work)

IInv ==
  /\ load \in Workloads
  /\ Sound(db) /\ Sound(work)
  /\ tx \in [Conns -> Locks]
  /\ Calls
  /\ OneWriter
  /\ (\A c \in Conns : ~Writing(c)) => work = db
  /\ \A c \in Conns : call[c].phase = "COMMIT" => Writing(c)
  /\ \A c \in Conns : Writing(c) => WrittenBy(c)

\* A database has its own rows.
LEMMA SameRows ==
  ASSUME NEW d
  PROVE  OnlyPlainRowsMore(d, d)
BY DEF OnlyPlainRowsMore

\* What a workload consists of.
LEMMA LoadType ==
  ASSUME load \in Workloads
  PROVE  load.calls \subseteq AllCalls /\ load.ids \subseteq Ids
BY WorkloadsAssumption

\* A connection whose call has returned.
LEMMA Returned ==
  ASSUME NEW result \in Results
  PROVE  Underway([Idle EXCEPT !.result = result]) /\ [Idle EXCEPT !.result = result].phase = "IDLE"
BY DEF Underway, CallType, Idle, Phases

\* The connection has returned from its call.
BecomesIdle(c) ==
  \E k : Underway(k) /\ k.phase = "IDLE" /\ call' = [call EXCEPT ![c] = k]

\* Whatever a call returns, its connection has nothing under way then.
LEMMA ReturnLeavesIdle ==
  ASSUME NEW c, NEW result \in Results, Return(c, result)
  PROVE  BecomesIdle(c)
<1>1. PICK k : k = [Idle EXCEPT !.result = result]
  OBVIOUS
<1>2. Underway(k) /\ k.phase = "IDLE"
  BY <1>1, Returned
<1>. QED  BY <1>1, <1>2 DEF Return, BecomesIdle

\* A connection that has not called anything.
LEMMA IdleIsUnderway == Underway(Idle) /\ Idle.phase = "IDLE"
BY DEF Underway, CallType, Idle, Phases, Results

\* What a read changes of an operation, as one value.
ReadInto(c, k, seen, phase) ==
  /\ k = [call[c] EXCEPT !.seen = seen, !.phase = phase]
  /\ call' = [call EXCEPT ![c] = k]
  /\ k.seen = seen /\ k.phase = phase /\ k.op = call[c].op /\ k.run = call[c].run
  /\ k.id = call[c].id

\* Every read that goes on is of that form.
LEMMA ReadAsOneValue ==
  ASSUME Calls, NEW c \in Conns, NEW seen, NEW phase,
         call' = [[call EXCEPT ![c].seen = seen] EXCEPT ![c].phase = phase]
  PROVE  \E k : ReadInto(c, k, seen, phase)
<1>1. call \in [Conns -> CallType] /\ call[c] \in CallType
  BY DEF Calls
<1>2. PICK k : k = [call[c] EXCEPT !.seen = seen, !.phase = phase]
  OBVIOUS
<1>3. /\ k.seen = seen /\ k.phase = phase /\ k.op = call[c].op /\ k.run = call[c].run
      /\ k.id = call[c].id
  BY <1>1, <1>2 DEF CallType
<1>4. call' = [call EXCEPT ![c] = k]
  <2>. DEFINE half == [call EXCEPT ![c].seen = seen]
  <2>1. half[c] = [call[c] EXCEPT !.seen = seen] /\ DOMAIN half = Conns
    BY <1>1
  <2>2. \A o \in Conns \ {c} : half[o] = call[o]
    BY <1>1
  <2>3. call' = [half EXCEPT ![c].phase = phase]
    OBVIOUS
  <2>. HIDE DEF half
  <2>4. [half EXCEPT ![c].phase = phase] = [call EXCEPT ![c] = k]
    BY <1>1, <1>2, <2>1, <2>2
  <2>. QED  BY <2>3, <2>4
<1>. QED  BY <1>2, <1>3, <1>4 DEF ReadInto

-----------------------------------------------------------------------------
\* A step of one connection that writes nothing.
LEMMA QuietStep ==
  ASSUME IInv, NEW c \in Conns, UNCHANGED <<load, db, work>>,
         NEW k, Underway(k), k.phase # "COMMIT", call' = [call EXCEPT ![c] = k],
         NEW lock \in Locks, tx' = [tx EXCEPT ![c] = lock],
         Writing(c) => Writing(c)',
         Writing(c)' => OnlyPlainRowsMore(db, work) /\ ~Busy(c)
  PROVE  IInv'
<1>1. tx' \in [Conns -> Locks] /\ \A o \in Conns \ {c} : tx'[o] = tx[o]
  BY DEF IInv
<1>2. call'[c] = k /\ \A o \in Conns \ {c} : call'[o] = call[o]
  BY DEF IInv, Calls
<1>3. \A o \in Conns \ {c} : Writing(o)' = Writing(o)
  BY <1>1 DEF Writing
<1>4. Calls'
  BY <1>2 DEF IInv, Calls, Underway, Ready
<1>5. OneWriter'
  BY <1>3 DEF IInv, OneWriter, Busy
<1>6. (\A o \in Conns : ~Writing(o)') => work' = db'
  BY <1>3 DEF IInv
<1>7. \A o \in Conns : call'[o].phase = "COMMIT" => Writing(o)'
  BY <1>2, <1>3 DEF IInv
<1>8. \A o \in Conns : Writing(o)' => WrittenBy(o)'
  BY <1>2, <1>3 DEF IInv, WrittenBy
<1>. QED  BY <1>1, <1>4, <1>5, <1>6, <1>7, <1>8 DEF IInv

\* A rollback, whatever the transaction held.
LEMMA UndoStep ==
  ASSUME IInv, NEW c \in Conns, UNCHANGED <<load, db>>, Undo(c),
         NEW k, Underway(k), k.phase = "IDLE", call' = [call EXCEPT ![c] = k]
  PROVE  IInv'
<1>1. tx' \in [Conns -> Locks] /\ tx'[c] = "NONE" /\ \A o \in Conns \ {c} : tx'[o] = tx[o]
  BY DEF IInv, Undo, Locks
<1>2. call'[c] = k /\ \A o \in Conns \ {c} : call'[o] = call[o]
  BY DEF IInv, Calls
<1>3. ~Writing(c)' /\ \A o \in Conns \ {c} : Writing(o)' = Writing(o)
  BY <1>1 DEF Writing
<1>4. work' = IF Writing(c) THEN db ELSE work
  BY DEF Undo
<1>5. Calls'
  BY <1>2 DEF IInv, Calls, Underway, Ready
<1>6. OneWriter'
  BY <1>3 DEF IInv, OneWriter
<1>7. (\A o \in Conns : ~Writing(o)') => work' = db'
  BY <1>3, <1>4 DEF IInv
<1>8. \A o \in Conns : call'[o].phase = "COMMIT" => Writing(o)'
  BY <1>2, <1>3 DEF IInv
<1>9. ASSUME NEW o \in Conns, Writing(o)'  PROVE WrittenBy(o)'
  <2>1. o # c /\ Writing(o)
    BY <1>3, <1>9
  <2>2. ~Writing(c)
    BY <2>1 DEF IInv, OneWriter
  <2>. QED  BY <1>2, <1>4, <2>1, <2>2 DEF IInv, WrittenBy
<1>10. Sound(db)' /\ Sound(work)'
  BY <1>4 DEF IInv, Sound, Database
<1>. QED  BY <1>1, <1>5, <1>6, <1>7, <1>8, <1>9, <1>10 DEF IInv

\* Statements that succeed, and what the transaction holds then.
LEMMA WriteStep ==
  ASSUME IInv, NEW c \in Conns, ~Busy(c), UNCHANGED <<load, db>>,
         call[c].phase = "EXECUTE", Goto(c, "COMMIT"),
         NEW lock \in {"WRITE", "PENDING"}, tx' = [tx EXCEPT ![c] = lock],
         Sound(work)', WrittenBy(c)'
  PROVE  IInv'
<1>1. tx' \in [Conns -> Locks] /\ tx'[c] = lock /\ \A o \in Conns \ {c} : tx'[o] = tx[o]
  BY DEF IInv, Locks
<1>0. PICK k : k = [call[c] EXCEPT !.phase = "COMMIT"]
  OBVIOUS
<1>2. /\ Underway(k)
      /\ call' = [call EXCEPT ![c] = k]
      /\ call'[c] = k /\ \A o \in Conns \ {c} : call'[o] = call[o]
  BY <1>0 DEF IInv, Calls, Goto, Underway, CallType, Phases, Ready
<1>3. Writing(c)' /\ \A o \in Conns \ {c} : ~Writing(o)'
  BY <1>1 DEF Writing, Busy
<1>4. Calls'
  BY <1>2 DEF IInv, Calls, Underway, Ready
<1>5. Sound(db)'
  BY DEF IInv, Sound, Database
<1>6. OneWriter' /\ ~(\A o \in Conns : ~Writing(o)')
  BY <1>3 DEF OneWriter
<1>7. \A o \in Conns : call'[o].phase = "COMMIT" => Writing(o)'
  BY <1>2, <1>3 DEF IInv, Busy
<1>8. \A o \in Conns : Writing(o)' => WrittenBy(o)'
  BY <1>3
<1>. QED  BY <1>1, <1>4, <1>5, <1>6, <1>7, <1>8 DEF IInv

\* What an operation does to a database does not depend on its phase.
LEMMA PhaseIsNoData ==
  ASSUME NEW k \in CallType, NEW phase, NEW d
  PROVE  Applied([k EXCEPT !.phase = phase], d) = Applied(k, d)
<1>1. LET l == [k EXCEPT !.phase = phase]
      IN l.op = k.op /\ l.run = k.run /\ l.id = k.id /\ l.seen = k.seen
  BY DEF CallType
<1>. QED  BY <1>1 DEF Applied, AppliedCommit, Cited

\* A connection that is not committing sees no more than additional plain rows.
LEMMA ViewIsSound ==
  ASSUME IInv, NEW c \in Conns, call[c].phase # "COMMIT"
  PROVE  Sound(View(c)) /\ OnlyPlainRowsMore(db, View(c))
BY SameRows DEF IInv, View, WrittenBy

-----------------------------------------------------------------------------
\* The empty database of a connection that has just opened it.
LEMMA IInvInit == Init => IInv
<1>. SUFFICES ASSUME Init  PROVE IInv
  OBVIOUS
<1>1. Sound(EmptyDb)
  <2>1. EmptyDb \in Database
    BY BoundAssumption DEF EmptyDb, Database
  <2>. QED  BY <2>1 DEF Sound, EmptyDb, Keys
<1>2. Calls
  BY IdleIsUnderway DEF Init, Calls, Underway
<1>. QED
  BY <1>1, <1>2 DEF Init, IInv, Locks, OneWriter, Writing, Idle

\* A caller starts an operation.
LEMMA CallStep ==
  ASSUME IInv, UNCHANGED load, NEW c \in Conns, NEW op \in load.calls, NEW r \in Runs, NEW x \in Artifacts \cup Ids,
         Call(c, op, r, x)
  PROVE  IInv'
<1>1. PICK k : /\ k = [op |-> op, run |-> r, id |-> x, seen |-> {}, result |-> "NONE",
                       phase |-> IF op \in Prereads THEN "READ" ELSE "EXECUTE"]
               /\ call' = [call EXCEPT ![c] = k]
  BY DEF Call
<1>2. op \in AllCalls /\ (IF op = "STAGE" THEN x \in Artifacts ELSE x \in Ids)
  BY LoadType DEF IInv, Call
<1>3. Underway(k)
  <2>1. k \in CallType
    <3>1. k.phase \in Phases /\ op \in AllCalls \cup {"NONE"} /\ x \in Artifacts \cup Ids \cup {"NONE"}
      BY <1>1, <1>2 DEF Phases
    <3>. QED  BY <1>1, <3>1 DEF CallType, Results
  <2>2. k.phase = "EXECUTE" => Ready(k)
    BY <1>1, <1>2 DEF Ready, Prereads
  <2>. QED  BY <1>1, <1>2, <2>1, <2>2 DEF Underway
<1>4. call[c].phase = "IDLE" /\ UNCHANGED <<db, work, tx>>
  BY DEF Call
<1>5. tx[c] \in Locks /\ tx' = [tx EXCEPT ![c] = tx[c]]
  BY <1>4 DEF IInv
<1>6. Writing(c)' = Writing(c)
  BY <1>4 DEF Writing
<1>7. Writing(c) => OnlyPlainRowsMore(db, work) /\ ~Busy(c)
  BY <1>4 DEF IInv, WrittenBy, OneWriter, Busy
<1>. QED  BY <1>1, <1>3, <1>4, <1>5, <1>6, <1>7, QuietStep

\* A read, with what the operation makes of it.
LEMMA ReadStep ==
  ASSUME IInv, UNCHANGED <<load, db, work>>, NEW c \in Conns, call[c].phase \in {"READ", "READ EVENTS"},
         Reads(c) \/ UNCHANGED tx,
         NEW k, Underway(k), k.phase # "COMMIT", call' = [call EXCEPT ![c] = k]
  PROVE  IInv'
<1>1. PICK lock \in Locks : tx' = [tx EXCEPT ![c] = lock] /\ (lock = tx[c] \/ (lock = "READ" /\ tx[c] = "OPEN"))
  <2>1. tx = [tx EXCEPT ![c] = tx[c]] /\ tx[c] \in Locks /\ "READ" \in Locks
    BY DEF IInv, Locks
  <2>. QED  BY <2>1 DEF Reads
<1>2. Writing(c)' <=> Writing(c)
  <2>1. tx'[c] = lock
    BY <1>1 DEF IInv
  <2>. QED  BY <1>1, <2>1 DEF Writing
<1>3. Writing(c) => OnlyPlainRowsMore(db, work) /\ ~Busy(c)
  BY DEF IInv, WrittenBy, OneWriter, Busy
<1>. QED  BY <1>1, <1>2, <1>3, QuietStep

\* The reads of commit_operational, of an excerpt and of resume_run.
LEMMA ReadsStep ==
  ASSUME IInv, UNCHANGED load, NEW c \in Conns,
         ReadLocked(c) \/ ReadStaging(c) \/ ReadCited(c) \/ ReadState(c) \/ ReadEvents(c)
  PROVE  IInv'
<1>0. Calls /\ Underway(call[c])
  BY DEF IInv, Calls
<1>1. ASSUME Return(c, "RAISED") \/ Return(c, "OK") \/ Return(c, "HIGH-WATER MISMATCH"),
             UNCHANGED <<db, work>>, Reads(c) \/ UNCHANGED tx,
             call[c].phase \in {"READ", "READ EVENTS"}
      PROVE  IInv'
  <2>1. PICK k : Underway(k) /\ k.phase = "IDLE" /\ call' = [call EXCEPT ![c] = k]
    <3>1. BecomesIdle(c)
      BY <1>1, ReturnLeavesIdle DEF Results
    <3>. QED  BY <3>1 DEF BecomesIdle
  <2>. QED  BY <1>1, <2>1, ReadStep
<1>2. CASE ReadLocked(c)
  BY <1>1, <1>2 DEF ReadLocked
<1>3. CASE ReadStaging(c)
  <2>. DEFINE staged == Keys(Of(call[c].run, View(c).staging))
  <2>1. /\ call[c].phase = "READ" /\ call[c].op = "COMMIT" /\ Reads(c) /\ UNCHANGED <<db, work>>
        /\ call' = [call EXCEPT ![c].seen = staged, ![c].phase = "EXECUTE"]
    BY <1>3 DEF ReadStaging
  <2>2. staged \subseteq Artifacts
    <3>1. View(c).staging \subseteq Runs \X Artifacts
      BY <2>1, ViewIsSound DEF Sound, Database
    <3>. QED  BY <3>1 DEF Keys, Of
  <2>. HIDE DEF staged
  <2>3. PICK k : ReadInto(c, k, staged, "EXECUTE")
    BY <1>0, <2>1, ReadAsOneValue
  <2>4. k \in CallType
    BY <1>0, <2>2, <2>3 DEF ReadInto, Underway, CallType, Phases
  <2>5. Ready(k)
    BY <1>0, <2>1, <2>2, <2>3 DEF ReadInto, Underway, Ready, AllCalls
  <2>6. Underway(k)
    BY <1>0, <2>1, <2>3, <2>4, <2>5 DEF ReadInto, Underway
  <2>. QED  BY <2>1, <2>3, <2>6, ReadStep DEF ReadInto
<1>4. CASE ReadCited(c) /\ call[c].run \in View(c).talks
  <2>. DEFINE listed == View(c).cited[call[c].run]
  <2>1. /\ call[c].phase = "READ" /\ call[c].op = "EXCERPT" /\ Reads(c) /\ UNCHANGED <<db, work>>
        /\ call' = [call EXCEPT ![c].seen = listed, ![c].phase = "EXECUTE"]
    BY <1>4 DEF ReadCited
  <2>2. listed \subseteq Ids
    <3>1. View(c).cited \in [Runs -> SUBSET Ids] /\ call[c].run \in Runs
      BY <1>0, <2>1, ViewIsSound DEF Sound, Database, Underway
    <3>. QED  BY <3>1
  <2>. HIDE DEF listed
  <2>3. PICK k : ReadInto(c, k, listed, "EXECUTE")
    BY <1>0, <2>1, ReadAsOneValue
  <2>4. k \in CallType
    BY <1>0, <2>2, <2>3 DEF ReadInto, Underway, CallType, Phases
  <2>5. Ready(k)
    BY <1>0, <2>1, <2>2, <2>3 DEF ReadInto, Underway, Ready, AllCalls
  <2>6. Underway(k)
    BY <1>0, <2>1, <2>3, <2>4, <2>5 DEF ReadInto, Underway
  <2>. QED  BY <2>1, <2>3, <2>6, ReadStep DEF ReadInto
<1>5. CASE ReadCited(c) /\ call[c].run \notin View(c).talks
  BY <1>1, <1>5 DEF ReadCited
<1>6. CASE ReadState(c) /\ call[c].run \in View(c).runs
  <2>. DEFINE row == {View(c).state[call[c].run]}
  <2>1. /\ call[c].phase = "READ" /\ call[c].op = "RESUME" /\ Reads(c) /\ UNCHANGED <<db, work>>
        /\ call' = [call EXCEPT ![c].seen = row, ![c].phase = "READ EVENTS"]
    BY <1>6 DEF ReadState
  <2>2. row \subseteq Nat
    <3>1. View(c).state \in [Runs -> 0..MaxEvents] /\ call[c].run \in Runs
      BY <1>0, <2>1, ViewIsSound DEF Sound, Database, Underway
    <3>. QED  BY <3>1, BoundAssumption
  <2>. HIDE DEF row
  <2>3. PICK k : ReadInto(c, k, row, "READ EVENTS")
    BY <1>0, <2>1, ReadAsOneValue
  <2>4. k \in CallType
    BY <1>0, <2>2, <2>3 DEF ReadInto, Underway, CallType, Phases
  <2>5. Underway(k)
    BY <1>0, <2>1, <2>3, <2>4 DEF ReadInto, Underway
  <2>. QED  BY <2>1, <2>3, <2>5, ReadStep DEF ReadInto
<1>7. CASE ReadState(c) /\ call[c].run \notin View(c).runs
  BY <1>1, <1>7 DEF ReadState
<1>8. CASE ReadEvents(c)
  <2>1. Return(c, "OK") \/ Return(c, "HIGH-WATER MISMATCH")
    BY <1>8 DEF ReadEvents, Return
  <2>. QED  BY <1>1, <1>8, <2>1 DEF ReadEvents
<1>. QED  BY <1>2, <1>3, <1>4, <1>5, <1>6, <1>7, <1>8

-----------------------------------------------------------------------------
\* What BEGIN IMMEDIATE and the statements of an explicit operation do.
LEMMA ExplicitStep ==
  ASSUME IInv, UNCHANGED load, NEW c \in Conns, CannotBegin(c) \/ ExecuteExplicit(c)
  PROVE  IInv'
<1>0. Calls /\ Underway(call[c]) /\ call[c].phase = "EXECUTE" /\ Ready(call[c])
  BY DEF IInv, Calls, CannotBegin, ExecuteExplicit, Underway
<1>1. CASE CannotBegin(c)
  <2>1. UNCHANGED <<db, work, tx>> /\ Return(c, "RAISED")
    BY <1>1 DEF CannotBegin
  <2>idle. PICK k : Underway(k) /\ k.phase = "IDLE" /\ call' = [call EXCEPT ![c] = k]
    <3>1. BecomesIdle(c)
      BY <2>1, ReturnLeavesIdle DEF Results
    <3>. QED  BY <3>1 DEF BecomesIdle
  <2>2. tx[c] \in Locks /\ tx' = [tx EXCEPT ![c] = tx[c]] /\ Writing(c)' = Writing(c)
    BY <2>1 DEF IInv, Writing
  <2>3. Writing(c) => OnlyPlainRowsMore(db, work) /\ ~Busy(c)
    BY <1>0 DEF IInv, WrittenBy, OneWriter, Busy
  <2>. QED  BY <2>idle, <2>1, <2>2, <2>3, QuietStep
<1>2. CASE ExecuteExplicit(c) /\ ~Accepted(call[c], db)
  <2>1. UNCHANGED db /\ Undo(c) /\ Return(c, "RAISED")
    BY <1>2 DEF ExecuteExplicit
  <2>2. PICK k : Underway(k) /\ k.phase = "IDLE" /\ call' = [call EXCEPT ![c] = k]
    <3>1. BecomesIdle(c)
      BY <2>1, ReturnLeavesIdle DEF Results
    <3>. QED  BY <3>1 DEF BecomesIdle
  <2>. QED  BY <2>1, <2>2, UndoStep
<1>3. CASE ExecuteExplicit(c) /\ Accepted(call[c], db)
  <2>1. /\ ~Busy(c) /\ UNCHANGED db /\ call[c].op \in Explicit
        /\ tx' = [tx EXCEPT ![c] = "WRITE"] /\ work' = Applied(call[c], db) /\ Goto(c, "COMMIT")
    BY <1>3 DEF ExecuteExplicit
  <2>2. Sound(work')
    BY <1>0, <1>3, <2>1, AppliedIsSound DEF IInv, Underway
  <2>3. Sound(work)'
    BY <2>2 DEF Sound, Database
  <2>4. PICK k : k = [call[c] EXCEPT !.phase = "COMMIT"]
    OBVIOUS
  <2>5. /\ call'[c] = k /\ k.phase = "COMMIT" /\ k.op = call[c].op
        /\ Applied(k, db) = Applied(call[c], db)
    BY <1>0, <2>1, <2>4, PhaseIsNoData DEF Calls, Goto, Underway, CallType
  <2>6. WrittenBy(c)'
    BY <2>1, <2>5 DEF WrittenBy
  <2>. QED  BY <1>0, <2>1, <2>3, <2>6, WriteStep
<1>. QED  BY <1>1, <1>2, <1>3

\* What an INSERT of a plain or scoped operation does.
LEMMA InsertStep ==
  ASSUME IInv, UNCHANGED load, NEW c \in Conns, InsertLocked(c) \/ Insert(c)
  PROVE  IInv'
<1>0. Calls /\ Underway(call[c]) /\ call[c].phase = "EXECUTE" /\ Ready(call[c]) /\ tx[c] \in Locks
  BY DEF IInv, Calls, InsertLocked, Insert, Underway
<1>idle. ASSUME Return(c, "RAISED")
      PROVE  \E k : Underway(k) /\ k.phase = "IDLE" /\ call' = [call EXCEPT ![c] = k]
  <2>1. BecomesIdle(c)
    BY <1>idle, ReturnLeavesIdle DEF Results
  <2>. QED  BY <2>1 DEF BecomesIdle
<1>1. CASE InsertLocked(c) /\ call[c].op \in Scoped
  <2>1. UNCHANGED db /\ Undo(c) /\ Return(c, "RAISED")
    BY <1>1 DEF InsertLocked
  <2>. QED  BY <1>idle, <2>1, UndoStep
<1>2. CASE InsertLocked(c) /\ call[c].op \notin Scoped
  <2>1. /\ UNCHANGED <<db, work>> /\ Return(c, "RAISED")
        /\ Busy(c) /\ tx' = [tx EXCEPT ![c] = IF @ = "NONE" THEN "OPEN" ELSE @]
    BY <1>2 DEF InsertLocked
  <2>2. ~Writing(c)
    BY <2>1 DEF IInv, OneWriter, Busy
  <2>3. PICK lock \in Locks : tx' = [tx EXCEPT ![c] = lock] /\ lock \notin {"WRITE", "PENDING"}
    BY <1>0, <2>1, <2>2 DEF IInv, Locks, Writing
  <2>4. ~Writing(c)'
    BY <2>3 DEF IInv, Writing
  <2>. QED  BY <1>idle, <2>1, <2>2, <2>3, <2>4, QuietStep
<1>3. CASE Insert(c) /\ ~Accepted(call[c], View(c)) /\ call[c].op \in Scoped
  <2>1. UNCHANGED db /\ Undo(c) /\ Return(c, "RAISED")
    BY <1>3 DEF Insert
  <2>. QED  BY <1>idle, <2>1, UndoStep
<1>4. CASE Insert(c) /\ ~Accepted(call[c], View(c)) /\ call[c].op \notin Scoped
  <2>1. /\ UNCHANGED <<db, work>> /\ Return(c, "RAISED")
        /\ ~Busy(c) /\ tx' = [tx EXCEPT ![c] = IF @ = "PENDING" THEN @ ELSE "WRITE"]
    BY <1>4 DEF Insert
  <2>2. PICK lock \in Locks : tx' = [tx EXCEPT ![c] = lock] /\ lock \in {"WRITE", "PENDING"}
    BY <2>1 DEF Locks
  <2>3. Writing(c)'
    BY <2>2 DEF IInv, Writing
  <2>4. ~Writing(c) => work = db
    BY <2>1 DEF IInv, Busy
  <2>5. OnlyPlainRowsMore(db, work)
    BY <1>0, <2>4, SameRows DEF IInv, WrittenBy
  <2>. QED  BY <1>idle, <2>1, <2>2, <2>3, <2>5, QuietStep
<1>5. CASE Insert(c) /\ Accepted(call[c], View(c))
  <2>1. /\ ~Busy(c) /\ UNCHANGED db /\ call[c].op \in Plain \cup Scoped
        /\ tx' = [tx EXCEPT ![c] = IF @ = "PENDING" THEN @ ELSE "WRITE"]
        /\ work' = Applied(call[c], View(c)) /\ Goto(c, "COMMIT")
    BY <1>5 DEF Insert
  <2>2. PICK lock \in {"WRITE", "PENDING"} : tx' = [tx EXCEPT ![c] = lock]
    BY <2>1
  <2>3. Sound(View(c)) /\ OnlyPlainRowsMore(db, View(c))
    BY <1>0, ViewIsSound
  <2>4. Sound(work')
    BY <1>0, <1>5, <2>1, <2>3, AppliedIsSound
  <2>5. Sound(work)'
    BY <2>4 DEF Sound, Database
  <2>6. PICK k : k = [call[c] EXCEPT !.phase = "COMMIT"]
    OBVIOUS
  <2>7. /\ call'[c] = k /\ k.phase = "COMMIT" /\ k.op = call[c].op
        /\ Applied(k, db) = Applied(call[c], db)
    BY <1>0, <2>1, <2>6, PhaseIsNoData DEF Calls, Goto, Underway, CallType
  <2>8. /\ OnlyPlainRowsMore(Applied(call[c], db), work')
        /\ call[c].op \in Plain => OnlyPlainRowsMore(db, work')
    BY <1>0, <2>1, <2>3, InsertsAreMonotone DEF IInv, Sound
  <2>9. call[c].op \notin Explicit
    BY <2>1 DEF Explicit
  <2>10. WrittenBy(c)'
    BY <2>1, <2>7, <2>8, <2>9 DEF WrittenBy
  <2>. QED  BY <1>0, <2>1, <2>2, <2>5, <2>10, WriteStep
<1>. QED  BY <1>1, <1>2, <1>3, <1>4, <1>5

\* A commit, a commit that finds a reader, and the end of a process.
LEMMA CommitStep ==
  ASSUME IInv, UNCHANGED load, NEW c \in Conns, Commit(c) \/ CommitLocked(c) \/ Crash(c)
  PROVE  IInv'
<1>1. CASE Commit(c)
  <2>1. /\ db' = work /\ work' = work /\ tx' = [tx EXCEPT ![c] = "NONE"]
        /\ Return(c, "OK")
    BY <1>1 DEF Commit
  <2>idle. PICK k : Underway(k) /\ k.phase = "IDLE" /\ call' = [call EXCEPT ![c] = k]
    <3>1. BecomesIdle(c)
      BY <2>1, ReturnLeavesIdle DEF Results
    <3>. QED  BY <3>1 DEF BecomesIdle
  <2>2. \A o \in Conns \ {c} : ~Writing(o)
    BY <1>1 DEF Commit, IInv, OneWriter
  <2>3. tx' \in [Conns -> Locks] /\ \A o \in Conns : ~Writing(o)'
    BY <2>1, <2>2 DEF IInv, Writing, Locks
  <2>4. Calls'
    BY <2>idle DEF IInv, Calls, Underway, Ready
  <2>5. \A o \in Conns : call'[o].phase # "COMMIT"
    BY <2>idle, <2>2 DEF IInv, Calls
  <2>6. Sound(db)' /\ Sound(work)'
    BY <2>1 DEF IInv, Sound, Database
  <2>. QED  BY <2>1, <2>3, <2>4, <2>5, <2>6 DEF IInv, OneWriter
<1>2. CASE CommitLocked(c) /\ call[c].op \in Plain
  <2>1. /\ UNCHANGED <<db, work>> /\ tx' = [tx EXCEPT ![c] = "PENDING"] /\ call[c].phase = "COMMIT"
        /\ Return(c, "RAISED")
    BY <1>2 DEF CommitLocked
  <2>idle. PICK k : Underway(k) /\ k.phase = "IDLE" /\ call' = [call EXCEPT ![c] = k]
    <3>1. BecomesIdle(c)
      BY <2>1, ReturnLeavesIdle DEF Results
    <3>. QED  BY <3>1 DEF BecomesIdle
  <2>2. "PENDING" \in Locks /\ Writing(c) /\ Writing(c)'
    BY <2>1 DEF IInv, Writing, Locks
  <2>3. call[c].op \notin Explicit
    BY <1>2 DEF Explicit
  <2>4. OnlyPlainRowsMore(db, work) /\ ~Busy(c)
    BY <1>2, <2>1, <2>2, <2>3 DEF IInv, WrittenBy, OneWriter, Busy
  <2>. QED  BY <2>idle, <2>1, <2>2, <2>4, QuietStep
<1>3. CASE CommitLocked(c) /\ call[c].op \notin Plain
  <2>1. UNCHANGED db /\ Undo(c) /\ Return(c, "RAISED")
    BY <1>3 DEF CommitLocked
  <2>2. PICK k : Underway(k) /\ k.phase = "IDLE" /\ call' = [call EXCEPT ![c] = k]
    <3>1. BecomesIdle(c)
      BY <2>1, ReturnLeavesIdle DEF Results
    <3>. QED  BY <3>1 DEF BecomesIdle
  <2>. QED  BY <2>1, <2>2, UndoStep
<1>4. CASE Crash(c)
  BY <1>4, IdleIsUnderway, UndoStep DEF Crash
<1>. QED  BY <1>1, <1>2, <1>3, <1>4

\* Inductive step of the invariant.
LEMMA IInvStep == IInv /\ [Next]_vars => IInv'
<1>. SUFFICES ASSUME IInv, [Next]_vars  PROVE IInv'
  OBVIOUS
<1>1. CASE UNCHANGED vars
  BY <1>1 DEF vars, IInv, Calls, Underway, OneWriter, Writing, WrittenBy
<1>2. ASSUME UNCHANGED load, NEW c \in Conns,
             (\E op \in load.calls, r \in Runs, x \in Artifacts \cup Ids : Call(c, op, r, x))
               \/ Step(c) \/ Crash(c)
      PROVE  IInv'
  BY <1>2, CallStep, ReadsStep, ExplicitStep, InsertStep, CommitStep DEF Step
<1>. QED  BY <1>1, <1>2 DEF Next

\* The invariant holds in every reachable state.
LEMMA IInvAlways == Spec => []IInv
BY IInvInit, IInvStep, PTL DEF Spec

\* The invariant is what is wanted and more.
LEMMA IInvImplies == IInv => WritesAreWhole
<1>. SUFFICES ASSUME IInv  PROVE WritesAreWhole
  OBVIOUS
<1>1. TypeOK
  BY DEF IInv, Sound, Calls, Underway, CallType, Phases, Locks, OneWriter, TypeOK
<1>2. ArtifactsHaveReceipts /\ AcceptancesHaveProfiles /\ RowMatchesEvents
  BY DEF IInv, Sound, ArtifactsHaveReceipts, AcceptancesHaveProfiles, RowMatchesEvents
<1>3. OpenWorkIsPlainRows
  BY DEF IInv, WrittenBy, OpenWorkIsPlainRows
<1>. QED  BY <1>1, <1>2, <1>3 DEF WritesAreWhole

\* Nothing half done is ever visible, nor kept to be published later: neither
\* by the store's methods, nor by SQLite's locks, nor by a crash.
THEOREM WritesStayWhole == Spec => []WritesAreWhole
BY IInvAlways, IInvImplies, PTL

\* Each commit publishes the one operation that returns, beside at most the
\* plain rows its connection had left over.
THEOREM CommitsPublishOneOperation == Spec => OneOperationPerCommit
<1>. DEFINE Alone(c) == Applied(call[c], db)
            One == db' # db =>
                     \E c \in Conns :
                       /\ call[c].phase = "COMMIT" /\ call'[c].result = "OK"
                       /\ \/ db' = Alone(c)
                          \/ call[c].op \in Plain \cup Scoped /\ OnlyPlainRowsMore(Alone(c), db')
<1>1. ASSUME IInv, Next, db' # db  PROVE One
  <2>1. PICK c \in Conns : Commit(c)
    BY <1>1 DEF Next, Step, Call, ReadLocked, ReadStaging, ReadCited, ReadState, ReadEvents, CannotBegin,
       ExecuteExplicit, InsertLocked, Insert, CommitLocked, Crash
  <2>2. call[c].phase = "COMMIT" /\ db' = work /\ call'[c].result = "OK"
    BY <1>1, <2>1 DEF Commit, Return, IInv, Calls, Idle
  <2>3. WrittenBy(c) /\ Ready(call[c])
    BY <1>1, <2>2 DEF IInv, Calls, Underway
  <2>4. call[c].op \in Explicit \/ call[c].op \in Plain \cup Scoped
    BY <2>3 DEF Ready, Explicit
  <2>. QED  BY <2>2, <2>3, <2>4 DEF WrittenBy
<1>2. IInv /\ [Next]_vars => [One]_vars
  BY <1>1
<1>. QED  BY <1>2, IInvAlways, PTL DEF Spec, OneOperationPerCommit
-----------------------------------------------------------------------------
\* A change of the database is a commit, and what a commit publishes is the
\* operation alone or, after plain inserts that had raised, more plain rows.
LEMMA ChangesAreCommits ==
  ASSUME IInv, [Next]_vars, db' # db
  PROVE  \E c \in Conns :
           /\ Ready(call[c])
           /\ \/ call[c].op \in Explicit /\ db' = Applied(call[c], db)
              \/ /\ call[c].op \in Plain \cup Scoped
                 /\ OnlyPlainRowsMore(Applied(call[c], db), db')
<1>1. PICK c \in Conns : Commit(c)
  BY DEF Next, Step, Call, ReadLocked, ReadStaging, ReadCited, ReadState, ReadEvents, CannotBegin,
     ExecuteExplicit, InsertLocked, Insert, CommitLocked, Crash, vars
<1>2. call[c].phase = "COMMIT" /\ db' = work
  BY <1>1 DEF Commit
<1>3. WrittenBy(c) /\ Ready(call[c])
  BY <1>2 DEF IInv, Calls, Underway
<1>4. call[c].op \in Explicit \/ call[c].op \in Plain \cup Scoped
  BY <1>3 DEF Ready, Explicit
<1>. QED  BY <1>2, <1>3, <1>4 DEF WrittenBy

\* Only the plain tables, and the staging table, know what an insert did.
LEMMA InsertsLeaveTheRest ==
  ASSUME NEW k, Ready(k), k.op \in Plain \cup Scoped, NEW d \in Database, NEW e,
         OnlyPlainRowsMore(Applied(k, d), e)
  PROVE  d.staging \subseteq e.staging /\ e.cited = d.cited
<1>. DEFINE row == {<<k.run, k.id>>}
            a == Applied(k, d)
<1>1. /\ k.op = "CREATE" => a = [d EXCEPT !.runs = @ \cup {k.run}]
      /\ k.op = "ATTEST" => a = [d EXCEPT !.attested = @ \cup row]
      /\ k.op = "PROFILE" => a = [d EXCEPT !.profiles = @ \cup {k.id}]
      /\ k.op = "ACCEPT" => a = [d EXCEPT !.accepts = @ \cup row]
      /\ k.op = "STAGE" => a = [d EXCEPT !.staging = @ \cup row]
  BY DEF Applied
<1>2. k.op \in {"CREATE", "ATTEST", "PROFILE", "ACCEPT", "STAGE"}
  BY DEF Plain, Scoped
<1>. HIDE DEF a
<1>3. DOMAIN a = Fields /\ d.staging \subseteq a.staging /\ a.cited = d.cited
  BY <1>1, <1>2 DEF Database, Fields
<1>4. e.staging = a.staging /\ e.cited = a.cited
  BY <1>3 DEF OnlyPlainRowsMore, Fields, PlainRows, a
<1>. QED  BY <1>3, <1>4

\* What the explicit operations make of the staged rows and the cited IDs.
LEMMA ExplicitOnStaging ==
  ASSUME NEW k, Ready(k), k.op \in Explicit, NEW d \in Database
  PROVE  CASE k.op = "COMMIT" ->
                /\ Applied(k, d).staging = d.staging \ Of(k.run, d.staging)
                /\ {k.run} \X k.seen \subseteq Applied(k, d).canonical
           [] k.op = "RESET" ->
                /\ Applied(k, d).staging = d.staging \ Of(k.run, d.staging)
                /\ k.run \notin Applied(k, d).runs
           [] OTHER -> Applied(k, d).staging = d.staging
<1>1. CASE k.op = "COMMIT"
  BY <1>1 DEF Applied, AppliedCommit, Database
<1>2. CASE k.op = "RESET"
  BY <1>2 DEF Applied, AppliedReset
<1>3. CASE k.op = "CONVERSE"
  BY <1>3 DEF Applied, Database
<1>4. CASE k.op = "EXCERPT"
  BY <1>4 DEF Applied, Database
<1>5. CASE k.op = "TRANSITION"
  BY <1>5 DEF Applied, Database
<1>. QED  BY <1>1, <1>2, <1>3, <1>4, <1>5 DEF Ready, Explicit, AllCalls, Plain, Scoped

LEMMA ExplicitOnCited ==
  ASSUME NEW k, Ready(k), k.op \in Explicit, NEW d \in Database
  PROVE  CASE k.op = "EXCERPT" ->
                /\ Applied(k, d).cited = [d.cited EXCEPT ![k.run] = Cited(k)]
                /\ <<k.run, k.id>> \in Applied(k, d).excerpts
           [] k.op = "RESET" ->
                /\ Applied(k, d).cited = [d.cited EXCEPT ![k.run] = {}]
                /\ k.run \notin Applied(k, d).runs
           [] OTHER -> Applied(k, d).cited = d.cited
<1>1. CASE k.op = "COMMIT"
  BY <1>1 DEF Applied, AppliedCommit, Database
<1>2. CASE k.op = "RESET"
  BY <1>2 DEF Applied, AppliedReset
<1>3. CASE k.op = "CONVERSE"
  BY <1>3 DEF Applied, Database
<1>4. CASE k.op = "EXCERPT"
  BY <1>4 DEF Applied, Database
<1>5. CASE k.op = "TRANSITION"
  BY <1>5 DEF Applied, Database
<1>. QED  BY <1>1, <1>2, <1>3, <1>4, <1>5 DEF Ready, Explicit, AllCalls, Plain, Scoped

\* Staging is emptied into the canonical table or by a reset, and otherwise
\* only loses what was staged behind the back of a commit under way.
THEOREM StagedRowsStayAccountedFor == Spec => StagedRowsAreAccountedFor
<1>. DEFINE Kept(row) ==
              \/ row \in db'.canonical
              \/ row[1] \notin db'.runs
              \/ \E c \in Conns : /\ call[c].op = "COMMIT" /\ call[c].run = row[1]
                                  /\ row[2] \notin call[c].seen
<1>1. ASSUME IInv, [Next]_vars, NEW row \in db.staging \ db'.staging  PROVE Kept(row)
  <2>1. db \in Database /\ row \in Runs \X Artifacts /\ row = <<row[1], row[2]>>
    BY <1>1 DEF IInv, Sound, Database
  <2>2. PICK c \in Conns :
          /\ Ready(call[c])
          /\ \/ call[c].op \in Explicit /\ db' = Applied(call[c], db)
             \/ /\ call[c].op \in Plain \cup Scoped
                /\ OnlyPlainRowsMore(Applied(call[c], db), db')
    BY <1>1, ChangesAreCommits
  <2>3. call[c].op \notin Plain \cup Scoped /\ call[c].op \in Explicit
    <3>1. ASSUME OnlyPlainRowsMore(Applied(call[c], db), db'), call[c].op \in Plain \cup Scoped
          PROVE  FALSE
      <4>1. db.staging \subseteq db'.staging
        BY <2>1, <2>2, <3>1, InsertsLeaveTheRest
      <4>. QED  BY <1>1, <4>1
    <3>2. call[c].op \in Explicit
      BY <2>2, <3>1
    <3>. QED  BY <3>2 DEF Explicit
  <2>4. db' = Applied(call[c], db)
    BY <2>2, <2>3
  <2>5. CASE call[c].op = "COMMIT"
    <3>1. /\ row[1] = call[c].run
          /\ {call[c].run} \X call[c].seen \subseteq db'.canonical
      BY <1>1, <2>1, <2>2, <2>3, <2>4, <2>5, ExplicitOnStaging DEF Of
    <3>2. CASE row[2] \in call[c].seen
      <4>1. <<row[1], row[2]>> \in {call[c].run} \X call[c].seen
        BY <3>1, <3>2
      <4>. QED  BY <2>1, <3>1, <4>1
    <3>. QED  BY <2>5, <3>1, <3>2
  <2>6. CASE call[c].op = "RESET"
    BY <1>1, <2>1, <2>2, <2>3, <2>4, <2>6, ExplicitOnStaging DEF Of
  <2>7. CASE call[c].op \notin {"COMMIT", "RESET"}
    BY <1>1, <2>1, <2>2, <2>3, <2>4, <2>7, ExplicitOnStaging
  <2>. QED  BY <2>5, <2>6, <2>7
<1>2. IInv /\ [Next]_vars => [\A row \in db.staging \ db'.staging : Kept(row)]_vars
  BY <1>1
<1>. QED  BY <1>2, IInvAlways, PTL DEF Spec, StagedRowsAreAccountedFor

\* The list of cited IDs and the stored excerpts part ways only over what
\* another process committed between the read of the list and its rewrite.
THEOREM CitedStayAccountedFor == Spec => CitedAreAccountedFor
<1>. DEFINE Lost(r, x) == r \notin db'.runs \/ \E c \in Conns : Citing(c, r) /\ x \notin call[c].seen
            Gained(r, x) == <<r, x>> \in db'.excerpts \/ \E c \in Conns : Citing(c, r) /\ x \in call[c].seen
            Explained == \A r \in Runs : /\ \A x \in db.cited[r] \ db'.cited[r] : Lost(r, x)
                                         /\ \A x \in db'.cited[r] \ db.cited[r] : Gained(r, x)
<1>1. ASSUME IInv, [Next]_vars, NEW r \in Runs
      PROVE  /\ \A x \in db.cited[r] \ db'.cited[r] : Lost(r, x)
             /\ \A x \in db'.cited[r] \ db.cited[r] : Gained(r, x)
  <2>1. db \in Database /\ db.cited \in [Runs -> SUBSET Ids]
    BY <1>1 DEF IInv, Sound, Database
  <2>2. CASE db'.cited[r] = db.cited[r]
    BY <2>2
  <2>3. CASE db'.cited[r] # db.cited[r]
    <3>1. PICK c \in Conns :
            /\ Ready(call[c])
            /\ \/ call[c].op \in Explicit /\ db' = Applied(call[c], db)
               \/ /\ call[c].op \in Plain \cup Scoped
                  /\ OnlyPlainRowsMore(Applied(call[c], db), db')
      BY <1>1, <2>3, ChangesAreCommits
    <3>2. call[c].op \in Explicit /\ db' = Applied(call[c], db)
      BY <2>1, <2>3, <3>1, InsertsLeaveTheRest
    <3>3. CASE call[c].op = "EXCERPT"
      <4>1. /\ db'.cited = [db.cited EXCEPT ![call[c].run] = Cited(call[c])]
            /\ <<call[c].run, call[c].id>> \in db'.excerpts
        BY <2>1, <3>1, <3>2, <3>3, ExplicitOnCited
      <4>2. r = call[c].run /\ db'.cited[r] = call[c].seen \cup {call[c].id}
        BY <2>1, <2>3, <4>1 DEF Cited
      <4>. QED  BY <3>3, <4>1, <4>2 DEF Citing
    <3>4. CASE call[c].op = "RESET"
      <4>1. /\ db'.cited = [db.cited EXCEPT ![call[c].run] = {}]
            /\ call[c].run \notin db'.runs
        BY <2>1, <3>1, <3>2, <3>4, ExplicitOnCited
      <4>2. r = call[c].run /\ db'.cited[r] = {}
        BY <2>1, <2>3, <4>1
      <4>. QED  BY <4>1, <4>2
    <3>5. CASE call[c].op \notin {"EXCERPT", "RESET"}
      BY <2>1, <2>3, <3>1, <3>2, <3>5, ExplicitOnCited
    <3>. QED  BY <3>3, <3>4, <3>5
  <2>. QED  BY <2>2, <2>3
<1>2. IInv /\ [Next]_vars => [Explained]_vars
  BY <1>1
<1>. QED  BY <1>2, IInvAlways, PTL DEF Spec, CitedAreAccountedFor

\* A call that has not returned has no result.
ResultsComeLast == \A c \in Conns : call[c].phase # "IDLE" => call[c].result = "NONE"

\* A step of one connection: its call goes on without a result, or has returned,
\* and the calls of the others stand.
LEMMA StepsOfACall ==
  ASSUME IInv, ResultsComeLast, NEW c \in Conns, UNCHANGED load,
         (\E op \in load.calls, r \in Runs, x \in Artifacts \cup Ids : Call(c, op, r, x))
           \/ Step(c) \/ Crash(c)
  PROVE  /\ \A o \in Conns \ {c} : call'[o] = call[o]
         /\ call'[c].phase = "IDLE" \/ call'[c].result = "NONE"
<1>1. call \in [Conns -> CallType]
  BY DEF IInv, Calls
<1>2. ASSUME NEW result, Return(c, result)
      PROVE  /\ \A o \in Conns \ {c} : call'[o] = call[o]
             /\ call'[c].phase = "IDLE"
  BY <1>1, <1>2 DEF Return, Idle
<1>3. ASSUME call[c].phase # "IDLE", NEW seen, NEW phase,
             \/ call' = [call EXCEPT ![c].seen = seen, ![c].phase = phase]
             \/ call' = [call EXCEPT ![c].phase = phase]
      PROVE  /\ \A o \in Conns \ {c} : call'[o] = call[o]
             /\ call'[c].result = "NONE"
  BY <1>1, <1>3 DEF ResultsComeLast, CallType
<1>4. ASSUME NEW op, NEW r, NEW x, Call(c, op, r, x)
      PROVE  /\ \A o \in Conns \ {c} : call'[o] = call[o]
             /\ call'[c].result = "NONE"
  BY <1>1, <1>4 DEF Call
<1>5. CASE ReadLocked(c)
  BY <1>2, <1>5 DEF ReadLocked
<1>6. CASE ReadStaging(c)
  <2>1. PICK seen : seen = Keys(Of(call[c].run, View(c).staging))
    OBVIOUS
  <2>2. /\ call[c].phase = "READ"
        /\ call' = [call EXCEPT ![c].seen = seen, ![c].phase = "EXECUTE"]
    BY <1>6, <2>1 DEF ReadStaging
  <2>. QED  BY <1>3, <2>2
<1>7. CASE ReadCited(c)
  <2>1. PICK seen : seen = View(c).cited[call[c].run]
    OBVIOUS
  <2>2. \/ /\ call[c].phase = "READ"
           /\ call' = [call EXCEPT ![c].seen = seen, ![c].phase = "EXECUTE"]
        \/ Return(c, "RAISED")
    BY <1>7, <2>1 DEF ReadCited
  <2>. QED  BY <1>2, <1>3, <2>2
<1>8. CASE ReadState(c)
  <2>1. PICK seen : seen = {View(c).state[call[c].run]}
    OBVIOUS
  <2>2. \/ /\ call[c].phase = "READ"
           /\ call' = [call EXCEPT ![c].seen = seen, ![c].phase = "READ EVENTS"]
        \/ Return(c, "RAISED")
    BY <1>8, <2>1 DEF ReadState
  <2>. QED  BY <1>2, <1>3, <2>2
<1>9. CASE ReadEvents(c)
  BY <1>2, <1>9 DEF ReadEvents
<1>10. CASE CannotBegin(c)
  BY <1>2, <1>10 DEF CannotBegin
<1>11. CASE ExecuteExplicit(c)
  BY <1>2, <1>3, <1>11 DEF ExecuteExplicit, Goto
<1>12. CASE InsertLocked(c)
  BY <1>2, <1>12 DEF InsertLocked
<1>13. CASE Insert(c)
  BY <1>2, <1>3, <1>13 DEF Insert, Goto
<1>14. CASE Commit(c)
  BY <1>2, <1>14 DEF Commit
<1>15. CASE CommitLocked(c)
  BY <1>2, <1>15 DEF CommitLocked
<1>16. CASE Crash(c)
  BY <1>1, <1>16 DEF Crash, Idle
<1>. QED
  BY <1>4, <1>5, <1>6, <1>7, <1>8, <1>9, <1>10, <1>11, <1>12, <1>13, <1>14, <1>15, <1>16 DEF Step

\* A result is there when its call is over, and not before.
LEMMA ResultsStayLast == Spec => []ResultsComeLast
<1>1. Init => ResultsComeLast
  BY DEF Init, ResultsComeLast, Idle
<1>2. ASSUME IInv, ResultsComeLast, [Next]_vars  PROVE ResultsComeLast'
  <2>1. CASE UNCHANGED vars
    BY <1>2, <2>1 DEF vars, ResultsComeLast
  <2>2. ASSUME NEW c \in Conns, UNCHANGED load,
               (\E op \in load.calls, r \in Runs, x \in Artifacts \cup Ids : Call(c, op, r, x))
                 \/ Step(c) \/ Crash(c)
        PROVE  ResultsComeLast'
    BY <1>2, <2>2, StepsOfACall DEF ResultsComeLast
  <2>. QED  BY <1>2, <2>1, <2>2 DEF Next
<1>3. IInv /\ ResultsComeLast /\ [Next]_vars => ResultsComeLast'
  BY <1>2
<1>. QED  BY <1>1, <1>3, IInvAlways, PTL DEF Spec

\* resume_run, whose two reads are two statements, refuses no row that stands:
\* what a connection sees of a row and its events always goes together.
THEOREM MismatchesStayRaces == Spec => MismatchesAreRaces
<1>. DEFINE Current(c) == call[c].seen = {View(c).state[call[c].run]}
            Sorted(c) == call[c].phase = "READ EVENTS" =>
                           /\ call'[c].result = "HIGH-WATER MISMATCH" => ~Current(c)
                           /\ call'[c].result = "OK" => Current(c)
<1>1. ASSUME IInv, ResultsComeLast, NEW o \in Conns, UNCHANGED load,
             (\E op \in load.calls, r \in Runs, x \in Artifacts \cup Ids : Call(o, op, r, x))
               \/ Step(o) \/ Crash(o),
             NEW c \in Conns, call[c].phase = "READ EVENTS"
      PROVE  /\ call'[c].result = "HIGH-WATER MISMATCH" => ~Current(c)
             /\ call'[c].result = "OK" => Current(c)
  <2>1. call \in [Conns -> CallType] /\ call[c].result = "NONE"
    BY <1>1 DEF IInv, Calls, ResultsComeLast
  <2>2. CASE o # c
    BY <1>1, <2>1, <2>2, StepsOfACall
  <2>3. CASE o = c /\ ReadEvents(c)
    <3>1. View(c).state = View(c).events
      BY <1>1, ViewIsSound DEF Sound
    <3>2. call'[c].result = IF call[c].seen = {View(c).events[call[c].run]}
                            THEN "OK" ELSE "HIGH-WATER MISMATCH"
      BY <2>1, <2>3 DEF ReadEvents, Return, Idle
    <3>. QED  BY <3>1, <3>2
  <2>4. CASE o = c /\ ReadLocked(c)
    BY <2>1, <2>4 DEF ReadLocked, Return, Idle
  <2>5. CASE o = c /\ Crash(c)
    BY <2>1, <2>5 DEF Crash, Idle
  <2>. QED
    BY <1>1, <2>2, <2>3, <2>4, <2>5
    DEF Step, Call, ReadStaging, ReadCited, ReadState, CannotBegin, ExecuteExplicit, InsertLocked,
        Insert, Commit, CommitLocked
<1>2. ASSUME IInv, ResultsComeLast, [Next]_vars, NEW c \in Conns, vars' # vars  PROVE Sorted(c)
  BY <1>1, <1>2 DEF Next
<1>3. IInv /\ ResultsComeLast /\ [Next]_vars => [\A c \in Conns : Sorted(c)]_vars
  BY <1>2
<1>. QED  BY <1>3, IInvAlways, ResultsStayLast, PTL DEF Spec, MismatchesAreRaces

(***************************************************************************)
(* Migrations                                                              *)
(***************************************************************************)
\* The four scripts by their numbers and lengths.
LEMMA ScriptsByNumber ==
  /\ Files = {1, 2, 3, 4}
  /\ Script[1] = Initial /\ Len(Initial) = 19
  /\ Script[2] = Imports /\ Len(Imports) = 11
  /\ Script[3] = Domain /\ Len(Domain) = 9
  /\ Script[4] = Connectors /\ Len(Connectors) = 2
<1>1. Files = {1, 2, 3, 4} /\ Script[1] = Initial /\ Script[2] = Imports /\ Script[3] = Domain
        /\ Script[4] = Connectors
  BY DEF Files, Script
<1>2. Len(Initial) = 19 /\ Len(Imports) = 11 /\ Len(Domain) = 9 /\ Len(Connectors) = 2
  BY DEF Initial, Imports, Domain, Connectors, Tables, On, NoTable
<1> QED
  BY <1>1, <1>2

\* No script is empty.
LEMMA LengthsArePositive ==
  ASSUME NEW f \in Files
  PROVE  Len(Script[f]) \in Nat /\ 1 <= Len(Script[f])
<1>1. CASE f = 1
  BY <1>1, ScriptsByNumber
<1>2. CASE f = 2
  BY <1>2, ScriptsByNumber
<1>3. CASE f = 3
  BY <1>3, ScriptsByNumber
<1>4. CASE f = 4
  BY <1>4, ScriptsByNumber
<1> QED
  BY <1>1, <1>2, <1>3, <1>4, ScriptsByNumber

\* No script makes an object twice.
LEMMA WithinAScript ==
  /\ \A i, j \in 1..19 : Initial[i] = Initial[j] => i = j
  /\ \A i, j \in 1..11 : Imports[i] = Imports[j] => i = j
  /\ \A i, j \in 1..9 : Domain[i] = Domain[j] => i = j
  /\ \A i, j \in 1..2 : Connectors[i] = Connectors[j] => i = j
<1>1. \A i, j \in 1..19 : Initial[i] = Initial[j] => i = j
  BY DEF Initial, Tables, On, NoTable
<1>2. \A i, j \in 1..11 : Imports[i] = Imports[j] => i = j
  BY DEF Imports, Tables, On, NoTable
<1>3. \A i, j \in 1..9 : Domain[i] = Domain[j] => i = j
  BY DEF Domain, Tables, On, NoTable
<1>4. \A i, j \in 1..2 : Connectors[i] = Connectors[j] => i = j
  BY DEF Connectors, Tables, On, NoTable
<1> QED
  BY <1>1, <1>2, <1>3, <1>4

\* No two scripts make one object.
LEMMA BetweenScripts ==
  /\ \A i \in 1..19, j \in 1..11 : Initial[i] # Imports[j]
  /\ \A i \in 1..19, j \in 1..9 : Initial[i] # Domain[j]
  /\ \A i \in 1..19, j \in 1..2 : Initial[i] # Connectors[j]
  /\ \A i \in 1..11, j \in 1..9 : Imports[i] # Domain[j]
  /\ \A i \in 1..11, j \in 1..2 : Imports[i] # Connectors[j]
  /\ \A i \in 1..9, j \in 1..2 : Domain[i] # Connectors[j]
<1>1. \A i \in 1..19, j \in 1..11 : Initial[i] # Imports[j]
  BY DEF Initial, Imports, Tables, On, NoTable
<1>2. \A i \in 1..19, j \in 1..9 : Initial[i] # Domain[j]
  BY DEF Initial, Domain, Tables, On, NoTable
<1>3. \A i \in 1..19, j \in 1..2 : Initial[i] # Connectors[j]
  BY DEF Initial, Connectors, Tables, On, NoTable
<1>4. \A i \in 1..11, j \in 1..9 : Imports[i] # Domain[j]
  BY DEF Imports, Domain, Tables, On, NoTable
<1>5. \A i \in 1..11, j \in 1..2 : Imports[i] # Connectors[j]
  BY DEF Imports, Connectors, Tables, On, NoTable
<1>6. \A i \in 1..9, j \in 1..2 : Domain[i] # Connectors[j]
  BY DEF Domain, Connectors, Tables, On, NoTable
<1> QED
  BY <1>1, <1>2, <1>3, <1>4, <1>5, <1>6

\* No object is made twice.
LEMMA ObjectsAreMadeOnce ==
  ASSUME NEW f \in Files, NEW g \in Files, NEW i \in 1..Len(Script[f]), NEW j \in 1..Len(Script[g]),
         Script[f][i] = Script[g][j]
  PROVE  f = g /\ i = j
<1>1. CASE f = g
  <2>1. CASE f = 1
    BY <1>1, <2>1, ScriptsByNumber, WithinAScript
  <2>2. CASE f = 2
    BY <1>1, <2>2, ScriptsByNumber, WithinAScript
  <2>3. CASE f = 3
    BY <1>1, <2>3, ScriptsByNumber, WithinAScript
  <2>4. CASE f = 4
    BY <1>1, <2>4, ScriptsByNumber, WithinAScript
  <2> QED
    BY <1>1, <2>1, <2>2, <2>3, <2>4, ScriptsByNumber
<1>2. CASE f # g
  <2>1. CASE f = 1
    <3>1. CASE g = 2
      BY <2>1, <3>1, ScriptsByNumber, BetweenScripts
    <3>2. CASE g = 3
      BY <2>1, <3>2, ScriptsByNumber, BetweenScripts
    <3>3. CASE g = 4
      BY <2>1, <3>3, ScriptsByNumber, BetweenScripts
    <3> QED
      BY <1>2, <2>1, <3>1, <3>2, <3>3, ScriptsByNumber
  <2>2. CASE f = 2
    <3>1. CASE g = 1
      BY <2>2, <3>1, ScriptsByNumber, BetweenScripts
    <3>2. CASE g = 3
      BY <2>2, <3>2, ScriptsByNumber, BetweenScripts
    <3>3. CASE g = 4
      BY <2>2, <3>3, ScriptsByNumber, BetweenScripts
    <3> QED
      BY <1>2, <2>2, <3>1, <3>2, <3>3, ScriptsByNumber
  <2>3. CASE f = 3
    <3>1. CASE g = 1
      BY <2>3, <3>1, ScriptsByNumber, BetweenScripts
    <3>2. CASE g = 2
      BY <2>3, <3>2, ScriptsByNumber, BetweenScripts
    <3>3. CASE g = 4
      BY <2>3, <3>3, ScriptsByNumber, BetweenScripts
    <3> QED
      BY <1>2, <2>3, <3>1, <3>2, <3>3, ScriptsByNumber
  <2>4. CASE f = 4
    <3>1. CASE g = 1
      BY <2>4, <3>1, ScriptsByNumber, BetweenScripts
    <3>2. CASE g = 2
      BY <2>4, <3>2, ScriptsByNumber, BetweenScripts
    <3>3. CASE g = 3
      BY <2>4, <3>3, ScriptsByNumber, BetweenScripts
    <3> QED
      BY <1>2, <2>4, <3>1, <3>2, <3>3, ScriptsByNumber
  <2> QED
    BY <1>2, <2>1, <2>2, <2>3, <2>4, ScriptsByNumber
<1> QED
  BY <1>1, <1>2

\* The table of a column or an index is one of the first script, which is not its own.
LEMMA TablesComeFirst ==
  ASSUME NEW f \in Files, NEW i \in 1..Len(Script[f]), Script[f][i][1] # NoTable
  PROVE  1 < f /\ <<NoTable, Script[f][i][1]>> \in Makes(1)
<1>1. \A k \in 1..19 : Initial[k][1] = NoTable
  BY DEF Initial, Tables, On, NoTable
<1>2. \A k \in 1..11 : Imports[k][1] # NoTable =>
        \E j \in 1..19 : Initial[j] = <<NoTable, Imports[k][1]>>
  BY DEF Imports, Initial, Tables, On, NoTable
<1>3. \A k \in 1..9 : Domain[k][1] # NoTable =>
        \E j \in 1..19 : Initial[j] = <<NoTable, Domain[k][1]>>
  BY DEF Domain, Initial, Tables, On, NoTable
<1>4. \A k \in 1..2 : Connectors[k][1] = NoTable
  BY DEF Connectors, Tables, On, NoTable
<1>5. Makes(1) = {Initial[j] : j \in 1..19}
  BY ScriptsByNumber DEF Makes
<1>6. f # 1 /\ f # 4
  BY <1>1, <1>4, ScriptsByNumber
<1>7. CASE f = 2
  BY <1>2, <1>5, <1>7, ScriptsByNumber
<1>8. CASE f = 3
  BY <1>3, <1>5, <1>8, ScriptsByNumber
<1> QED
  BY <1>6, <1>7, <1>8, ScriptsByNumber

\* What a process has behind it: every script it has not to run is recorded, and of
\* the one it is in, exactly the statements before its next are there.
Behind(p) ==
  at[p].todo # {} => 1 <= at[p].next /\ Files \ at[p].todo \subseteq versions

Progress(p, f) ==
  p \in Inside(f) => \A i \in 1..Len(Script[f]) : Script[f][i] \in objects <=> i < at[p].next

\* A script of which something is there has its first object.
BegunAtTheFirst(f) == Makes(f) \cap objects # {} => Script[f][1] \in objects

MigrationsInv ==
  /\ ScriptsAreWhole
  /\ \A p \in Processes : Behind(p)
  /\ \A p \in Processes, f \in Files : Progress(p, f)
  /\ \A f \in Files : BegunAtTheFirst(f)

\* A process applies one script at a time.
LEMMA OneAtATime ==
  ASSUME NEW p \in Processes, NEW f \in Files, NEW g \in Files, Applying(p, f), Applying(p, g)
  PROVE  f = g
  BY DEF Applying, Files

\* What leaves the objects alone and takes a process out of every script it was inside,
\* recorded or stopped there, disturbs nobody else.
LEMMA LeavingKeeps ==
  ASSUME MigrationsInv, NEW p \in Processes, MigrationsTypeOK', RecordedIsWhole',
         objects' = objects, versions \subseteq versions',
         \A q \in Processes \ {p} : at'[q] = at[q],
         at'[p].next <= 1, Behind(p)',
         interrupted = "INSIDE" => interrupted' = "INSIDE",
         \A f \in Files : p \in Inside(f) => f \in versions' \/ interrupted' = "INSIDE"
  PROVE  MigrationsInv'
<1> USE DEF MigrationsInv, ScriptsAreWhole
<1>1. \A f \in Files : Inside(f)' = Inside(f) \ {p}
  <2> SUFFICES ASSUME NEW f \in Files, NEW q \in Processes
               PROVE  q \in Inside(f)' <=> q \in Inside(f) /\ q # p
    BY DEF Inside
  <2>1. CASE q = p
    BY <2>1 DEF Inside, Applying, RecordedIsWhole, MigrationsTypeOK
  <2>2. CASE q # p
    BY <2>2 DEF Inside, Applying
  <2> QED
    BY <2>1, <2>2
<1>2. OneProcessPerScript'
  <2> SUFFICES ASSUME NEW f \in Files
               PROVE  /\ \A q, r \in Inside(f)' : q = r
                      /\ Makes(f) \cap objects' # {} =>
                           f \in versions' \/ interrupted' = "INSIDE" \/ Inside(f)' # {}
    BY DEF OneProcessPerScript, Makes
  <2>1. \A q, r \in Inside(f) : q = r
    BY DEF OneProcessPerScript
  <2>2. Makes(f) \cap objects # {} => f \in versions \/ interrupted = "INSIDE" \/ Inside(f) # {}
    BY DEF OneProcessPerScript
  <2>3. CASE p \in Inside(f)
    BY <1>1, <2>1, <2>3
  <2>4. CASE p \notin Inside(f)
    BY <1>1, <2>1, <2>2, <2>4
  <2> QED
    BY <2>3, <2>4
<1>3. \A q \in Processes : Behind(q)'
  BY DEF Behind
<1>4. \A q \in Processes, f \in Files : Progress(q, f)'
  <2> SUFFICES ASSUME NEW q \in Processes, NEW f \in Files, q \in Inside(f)',
                      NEW i \in 1..Len(Script[f])
               PROVE  Script[f][i] \in objects' <=> i < at'[q].next
    BY DEF Progress
  <2>1. q \in Inside(f) /\ q # p
    BY <1>1
  <2> QED
    BY <2>1 DEF Progress
<1>5. \A f \in Files : BegunAtTheFirst(f)'
  BY DEF BegunAtTheFirst, Makes
<1> QED
  BY <1>2, <1>3, <1>4, <1>5

\* An executed statement is the next of the only process inside its script.
LEMMA ExecuteKeeps ==
  ASSUME MigrationsInv, NEW p \in Processes, NEW f \in Files, Execute(p, f)
  PROVE  MigrationsInv'
<1> USE DEF MigrationsInv, ScriptsAreWhole
<1> DEFINE n == at[p].next
<1>1. /\ n \in 1..Len(Script[f])
      /\ at' = [at EXCEPT ![p].next = n + 1]
      /\ objects' = objects \cup {Script[f][n]} /\ Script[f][n] \notin objects
      /\ versions' = versions /\ interrupted' = interrupted
      /\ Applying(p, f) /\ at[p].todo # {}
  <2>1. n \in Nat /\ 1 <= n
    BY DEF Execute, Within, Applying, Behind, RecordedIsWhole, MigrationsTypeOK
  <2> QED
    BY <2>1, LengthsArePositive DEF Execute, Within, Applying, Possible
<1>2. /\ at'[p].todo = at[p].todo /\ at'[p].next = n + 1
      /\ \A q \in Processes \ {p} : at'[q] = at[q]
      /\ at' \in [Processes -> [todo : SUBSET Files, next : Nat]]
  BY <1>1 DEF RecordedIsWhole, MigrationsTypeOK
<1> HIDE DEF n
<1>3. Script[f][n] \in Makes(f) /\ \A g \in Files \ {f} : Script[f][n] \notin Makes(g)
  BY <1>1, ObjectsAreMadeOnce DEF Makes
<1>4. \A q \in Processes \ {p} : q \notin Inside(f)
  <2> SUFFICES ASSUME NEW q \in Processes \ {p}, q \in Inside(f)
               PROVE  FALSE
    OBVIOUS
  <2>1. CASE n = 1
    BY <1>1, <2>1, LengthsArePositive DEF Progress, Inside
  <2>2. CASE n # 1
    <3>1. p \in Inside(f)
      BY <1>1, <2>2 DEF Inside, n
    <3> QED
      BY <3>1 DEF OneProcessPerScript
  <2> QED
    BY <2>1, <2>2
<1>5. Inside(f)' = {p}
  <2>1. p \in Inside(f)'
    BY <1>1, <1>2 DEF Inside, Applying
  <2>2. \A q \in Processes \ {p} : q \notin Inside(f)'
    BY <1>2, <1>4 DEF Inside, Applying
  <2> QED
    BY <2>1, <2>2 DEF Inside
<1>6. \A g \in Files \ {f} : Inside(g)' = Inside(g) /\ p \notin Inside(g)
  <2> SUFFICES ASSUME NEW g \in Files \ {f}
               PROVE  Inside(g)' = Inside(g) /\ p \notin Inside(g)
    OBVIOUS
  <2>1. ~Applying(p, g) /\ ~Applying(p, g)'
    BY <1>1, <1>2, OneAtATime DEF Applying
  <2>2. \A q \in Processes : q \in Inside(g)' <=> q \in Inside(g)
    BY <1>2, <2>1 DEF Inside, Applying
  <2> QED
    BY <2>1, <2>2 DEF Inside
<1>7. \A i \in 1..Len(Script[f]) : Script[f][i] \in objects <=> i < n
  <2> SUFFICES ASSUME NEW i \in 1..Len(Script[f])
               PROVE  Script[f][i] \in objects <=> i < n
    OBVIOUS
  <2>1. CASE n = 1
    <3>1. Script[f][1] \notin objects
      BY <1>1, <2>1
    <3>2. Script[f][i] \notin objects
      BY <3>1 DEF BegunAtTheFirst, Makes
    <3> QED
      BY <2>1, <3>2
  <2>2. CASE n # 1
    BY <1>1, <2>2 DEF Inside, Progress, n
  <2> QED
    BY <2>1, <2>2
<1>8. RecordedIsWhole'
  <2>1. Script[f][n] \in UNION {Makes(g) : g \in Files}
    BY <1>3
  <2>2. MigrationsTypeOK'
    BY <1>1, <1>2, <2>1 DEF RecordedIsWhole, MigrationsTypeOK, Makes
  <2> QED
    BY <1>1, <2>2 DEF RecordedIsWhole, Makes
<1>9. OneProcessPerScript'
  <2> SUFFICES ASSUME NEW g \in Files
               PROVE  /\ \A q, r \in Inside(g)' : q = r
                      /\ Makes(g) \cap objects' # {} =>
                           g \in versions' \/ interrupted' = "INSIDE" \/ Inside(g)' # {}
    BY DEF OneProcessPerScript, Makes
  <2>1. CASE g = f
    BY <1>5, <2>1
  <2>2. CASE g # f
    BY <1>1, <1>3, <1>6, <2>2 DEF OneProcessPerScript
  <2> QED
    BY <2>1, <2>2
<1>10. \A q \in Processes : Behind(q)'
  BY <1>1, <1>2 DEF Behind
<1>11. \A q \in Processes, g \in Files : Progress(q, g)'
  <2> SUFFICES ASSUME NEW q \in Processes, NEW g \in Files, q \in Inside(g)',
                      NEW i \in 1..Len(Script[g])
               PROVE  Script[g][i] \in objects' <=> i < at'[q].next
    BY DEF Progress
  <2>1. CASE g = f
    <3>1. q = p
      BY <1>5, <2>1
    <3>2. Script[f][i] = Script[f][n] <=> i = n
      BY <1>1, <2>1, ObjectsAreMadeOnce
    <3> QED
      BY <1>1, <1>2, <1>7, <2>1, <3>1, <3>2
  <2>2. CASE g # f
    <3>1. q \in Inside(g) /\ q # p
      BY <1>6, <2>2
    <3>2. Script[g][i] # Script[f][n]
      BY <1>3, <2>2 DEF Makes
    <3> QED
      BY <1>1, <1>2, <3>1, <3>2 DEF Progress
  <2> QED
    BY <2>1, <2>2
<1>12. \A g \in Files : BegunAtTheFirst(g)'
  <2> SUFFICES ASSUME NEW g \in Files, Makes(g) \cap objects' # {}
               PROVE  Script[g][1] \in objects'
    BY DEF BegunAtTheFirst, Makes
  <2>1. CASE g = f
    BY <1>1, <1>7, <2>1, LengthsArePositive
  <2>2. CASE g # f
    BY <1>1, <1>3, <2>2 DEF BegunAtTheFirst
  <2> QED
    BY <2>1, <2>2
<1> QED
  BY <1>8, <1>9, <1>10, <1>11, <1>12

\* A statement fails at the first of its script only: past it, nobody else has made what
\* comes next, and the tables are there.
LEMMA FailsKeeps ==
  ASSUME MigrationsInv, NEW p \in Processes, NEW f \in Files, Fails(p, f)
  PROVE  MigrationsInv'
<1> USE DEF MigrationsInv, ScriptsAreWhole
<1>1. /\ at[p].next \in 1..Len(Script[f])
      /\ at' = [at EXCEPT ![p] = Settled]
      /\ objects' = objects /\ versions' = versions /\ interrupted' = interrupted
      /\ Applying(p, f) /\ at[p].todo # {} /\ ~Possible(Script[f][at[p].next])
  <2>1. at[p].next \in Nat /\ 1 <= at[p].next
    BY DEF Fails, Within, Applying, Behind, RecordedIsWhole, MigrationsTypeOK
  <2> QED
    BY <2>1, LengthsArePositive DEF Fails, Within, Applying
<1>2. p \notin Inside(f)
  <2> SUFFICES ASSUME p \in Inside(f)
               PROVE  Possible(Script[f][at[p].next])
    BY <1>1
  <2>1. Script[f][at[p].next] \notin objects
    BY <1>1 DEF Progress
  <2>2. ASSUME Script[f][at[p].next][1] # NoTable
        PROVE  <<NoTable, Script[f][at[p].next][1]>> \in objects
    <3>1. 1 < f /\ <<NoTable, Script[f][at[p].next][1]>> \in Makes(1)
      BY <1>1, <2>2, TablesComeFirst
    <3>2. 1 \in versions
      BY <1>1, <3>1 DEF Applying, Behind, Files
    <3> QED
      BY <3>1, <3>2 DEF RecordedIsWhole
  <2> QED
    BY <2>1, <2>2 DEF Possible
<1>3. \A g \in Files : p \notin Inside(g)
  BY <1>1, <1>2, OneAtATime DEF Inside
<1>4. MigrationsTypeOK' /\ RecordedIsWhole'
  BY <1>1 DEF RecordedIsWhole, MigrationsTypeOK, Settled, Makes
<1>5. at'[p] = Settled /\ \A q \in Processes \ {p} : at'[q] = at[q]
  BY <1>1 DEF RecordedIsWhole, MigrationsTypeOK
<1> QED
  BY <1>1, <1>3, <1>4, <1>5, LeavingKeeps DEF Settled, Behind

\* A script is recorded by the process that has executed all of it.
LEMMA RecordKeeps ==
  ASSUME MigrationsInv, NEW p \in Processes, NEW f \in Files, Record(p, f)
  PROVE  MigrationsInv'
<1> USE DEF MigrationsInv, ScriptsAreWhole
<1>1. /\ Applying(p, f) /\ at[p].todo # {} /\ f \in at[p].todo
      /\ at[p].next \in Nat /\ at[p].next > Len(Script[f]) /\ Len(Script[f]) \in Nat
      /\ 1 <= Len(Script[f])
      /\ at' = [at EXCEPT ![p] = After(at[p].todo \ {f})]
      /\ objects' = objects /\ versions' = versions \cup {f} /\ interrupted' = interrupted
  BY LengthsArePositive DEF Record, Within, Applying, RecordedIsWhole, MigrationsTypeOK
<1>2. /\ After(at[p].todo \ {f}) \in [todo : SUBSET Files, next : Nat]
      /\ After(at[p].todo \ {f}).todo = at[p].todo \ {f} /\ After(at[p].todo \ {f}).next <= 1
      /\ at[p].todo \ {f} # {} => After(at[p].todo \ {f}).next = 1
  BY DEF RecordedIsWhole, MigrationsTypeOK, After, Settled
<1>3. /\ at'[p] = After(at[p].todo \ {f}) /\ \A q \in Processes \ {p} : at'[q] = at[q]
      /\ at' \in [Processes -> [todo : SUBSET Files, next : Nat]]
  BY <1>1, <1>2 DEF RecordedIsWhole, MigrationsTypeOK
<1>4. Makes(f) \subseteq objects
  <2>1. p \in Inside(f)
    BY <1>1 DEF Inside
  <2> QED
    BY <1>1, <2>1 DEF Progress, Makes
<1>5. RecordedIsWhole'
  <2>1. MigrationsTypeOK'
    BY <1>1, <1>3 DEF RecordedIsWhole, MigrationsTypeOK, Makes
  <2>2. \A g \in 1..f : g \in versions' /\ Makes(g) \subseteq objects
    <3> SUFFICES ASSUME NEW g \in 1..f
                 PROVE  g \in versions' /\ Makes(g) \subseteq objects
      OBVIOUS
    <3>1. CASE g = f
      BY <1>1, <1>4, <3>1
    <3>2. CASE g # f
      <4>1. g \in Files \ at[p].todo
        BY <1>1, <3>2 DEF Applying, Files
      <4>2. g \in versions /\ g \in 1..g
        BY <1>1, <4>1 DEF Behind, Files
      <4> QED
        BY <1>1, <4>2 DEF RecordedIsWhole
    <3> QED
      BY <3>1, <3>2
  <2>3. ASSUME NEW h \in versions', NEW g \in 1..h
        PROVE  g \in versions' /\ Makes(g) \subseteq objects
    BY <1>1, <2>2, <2>3 DEF RecordedIsWhole
  <2> QED
    BY <1>1, <2>1, <2>3 DEF RecordedIsWhole, Makes
<1>6. \A g \in Files : p \in Inside(g) => g \in versions'
  BY <1>1, OneAtATime DEF Inside
<1>7. Behind(p)'
  BY <1>1, <1>2, <1>3 DEF Behind
<1> QED
  BY <1>1, <1>2, <1>3, <1>5, <1>6, <1>7, LeavingKeeps DEF RecordedIsWhole

\* A process that begins is inside nothing, and what it will not run is recorded.
LEMMA BeginKeeps ==
  ASSUME MigrationsInv, NEW p \in Processes, Begin(p)
  PROVE  MigrationsInv'
<1> USE DEF MigrationsInv, ScriptsAreWhole
<1>1. /\ at' = [at EXCEPT ![p] = [todo |-> Pending, next |-> 1]]
      /\ objects' = objects /\ versions' = versions /\ interrupted' = interrupted
      /\ Pending \subseteq Files /\ Files \ Pending \subseteq versions
  BY DEF Begin, Pending
<1>2. at'[p] = [todo |-> Pending, next |-> 1] /\ \A q \in Processes \ {p} : at'[q] = at[q]
  BY <1>1 DEF RecordedIsWhole, MigrationsTypeOK
<1>3. MigrationsTypeOK' /\ RecordedIsWhole'
  BY <1>1 DEF RecordedIsWhole, MigrationsTypeOK, Makes
<1>4. \A g \in Files : p \notin Inside(g)
  BY DEF Begin, Inside, Applying
<1> QED
  BY <1>1, <1>2, <1>3, <1>4, LeavingKeeps DEF Behind

\* A process stopped inside a script is remembered.
LEMMA StopKeeps ==
  ASSUME MigrationsInv, NEW p \in Processes, Stop(p)
  PROVE  MigrationsInv'
<1> USE DEF MigrationsInv, ScriptsAreWhole
<1>1. /\ at' = [at EXCEPT ![p] = Settled]
      /\ objects' = objects /\ versions' = versions
      /\ interrupted' \in {"BETWEEN", "INSIDE"}
      /\ at[p].next > 1 \/ interrupted = "INSIDE" => interrupted' = "INSIDE"
  BY DEF Stop
<1>2. at'[p] = Settled /\ \A q \in Processes \ {p} : at'[q] = at[q]
  BY <1>1 DEF RecordedIsWhole, MigrationsTypeOK
<1>3. MigrationsTypeOK' /\ RecordedIsWhole'
  BY <1>1 DEF RecordedIsWhole, MigrationsTypeOK, Settled, Makes
<1>4. \A g \in Files : p \in Inside(g) => interrupted' = "INSIDE"
  BY <1>1 DEF Inside
<1> QED
  BY <1>1, <1>2, <1>3, <1>4, LeavingKeeps DEF Settled, Behind

\* What the table of versions says of a script and what the script has made agree, however
\* many processes apply the scripts at once and wherever they are stopped.
THEOREM ScriptsStayWhole == MigrationsSpec => []ScriptsAreWhole
<1>1. MigrationsInit => MigrationsInv
  <2> SUFFICES ASSUME MigrationsInit
               PROVE  MigrationsInv
    OBVIOUS
  <2>1. \A p \in Processes : at[p] = Settled
    BY DEF MigrationsInit
  <2>2. RecordedIsWhole
    BY DEF MigrationsInit, RecordedIsWhole, MigrationsTypeOK, Settled
  <2>3. \A f \in Files : Inside(f) = {}
    BY <2>1 DEF Inside, Applying, Settled
  <2> QED
    BY <2>1, <2>2, <2>3 DEF MigrationsInit, MigrationsInv, ScriptsAreWhole, OneProcessPerScript,
       Behind, Progress, BegunAtTheFirst, Settled
<1>2. MigrationsInv /\ [MigrationsNext]_migrationVars => MigrationsInv'
  <2> SUFFICES ASSUME MigrationsInv, [MigrationsNext]_migrationVars
               PROVE  MigrationsInv'
    OBVIOUS
  <2>1. CASE UNCHANGED migrationVars
    BY <2>1 DEF migrationVars, MigrationsInv, ScriptsAreWhole, RecordedIsWhole, MigrationsTypeOK,
       OneProcessPerScript, Inside, Applying, Behind, Progress, BegunAtTheFirst, Makes
  <2>2. ASSUME NEW p \in Processes, Begin(p)
        PROVE  MigrationsInv'
    BY <2>2, BeginKeeps
  <2>3. ASSUME NEW p \in Processes, Stop(p)
        PROVE  MigrationsInv'
    BY <2>3, StopKeeps
  <2>4. ASSUME NEW p \in Processes, Advance(p)
        PROVE  MigrationsInv'
    BY <2>4, ExecuteKeeps, FailsKeeps, RecordKeeps DEF Advance
  <2> QED
    BY <2>1, <2>2, <2>3, <2>4 DEF MigrationsNext
<1>3. MigrationsInv => ScriptsAreWhole
  BY DEF MigrationsInv
<1> QED
  BY <1>1, <1>2, <1>3, PTL DEF MigrationsSpec

=============================================================================
