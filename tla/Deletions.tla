----------------------------- MODULE Deletions -----------------------------
(***************************************************************************)
(* The deletion feed of Salesforce: get_deletion_receipt reads one window, *)
(* persist_deletion_receipt stores the receipt and a tombstone for each    *)
(* record it lists, in one transaction (StoreConnections opens those up).  *)
(*                                                                         *)
(* The vendor is external: it deletes and restores records, its feed lags  *)
(* and forgets what is old.  So is the driver, which may hand a receipt    *)
(* over again when it does not know whether the first call committed.      *)
(* Time is finer than the seconds of a request.  Each run has one manifest *)
(* of the source.                                                          *)
(***************************************************************************)
EXTENDS Integers, FiniteSets

CONSTANTS
  Records,         \* records of the object kind
  Runs,
  Windows,         \* windows <<begin, end>> the driver asks for
  TicksPerSecond,
  MaxRange,        \* 30 days
  Lag,             \* how far the feed may be behind
  MaxTime,         \* bound
  MaxForgotten,    \* bound: how far the start of the feed may move
  MaxReceipts      \* bound: receipts stored at a time

ASSUME SecondsAssumption == TicksPerSecond \in Nat \ {0}
ASSUME WindowsAssumption == Windows \subseteq Nat \X Nat
ASSUME BoundsAssumption == {MaxRange, Lag, MaxTime, MaxForgotten, MaxReceipts} \subseteq Nat

VARIABLES
  now, deletedAt, oldest,        \* the vendor: clock, feed, where the feed begins
  runs,                          \* runs that exist, with their manifest
  held,                          \* the receipt the driver holds, and for which run
  receipts, tombstones,          \* deletion_receipts and source_tombstones
  outcome                        \* how a call of the store ended, if that was the last step

vendor == <<now, deletedAt, oldest>>
stored == <<runs, receipts, tombstones>>
vars == <<vendor, held, stored, outcome>>

Live == -1        \* deletedAt of a record that is not deleted
Unsaid == -1      \* a date the response does not have, or not in a legal form

Times == 0..MaxTime

Init ==
  /\ now = 0 /\ deletedAt = [x \in Records |-> Live] /\ oldest = 0
  /\ runs = Runs /\ held = {}
  /\ receipts = {} /\ tombstones = {} /\ outcome = "NONE"

-----------------------------------------------------------------------------
Tick ==
  /\ now < MaxTime
  /\ now' = now + 1
  /\ outcome' = "NONE"
  /\ UNCHANGED <<deletedAt, oldest, held, stored>>

Delete(x) ==
  /\ deletedAt[x] = Live
  /\ deletedAt' = [deletedAt EXCEPT ![x] = now]
  /\ outcome' = "NONE"
  /\ UNCHANGED <<now, oldest, held, stored>>

Restore(x) ==
  /\ deletedAt[x] # Live
  /\ deletedAt' = [deletedAt EXCEPT ![x] = Live]
  /\ outcome' = "NONE"
  /\ UNCHANGED <<now, oldest, held, stored>>

\* what was deleted before some time is gone for good, and so is its entry
Forget ==
  /\ oldest < now /\ oldest < MaxForgotten
  /\ oldest' = oldest + 1
  /\ outcome' = "NONE"
  /\ UNCHANGED <<now, deletedAt, held, stored>>

\* the feed from second to second, as far as it has come
Feed(from, to, covered) ==
  {<<x, deletedAt[x]>> : x \in {y \in Records : /\ deletedAt[y] \in from..(to - 1)
                                              /\ deletedAt[y] \in oldest..(covered - 1)}}

-----------------------------------------------------------------------------
\* _utc_parameter
Second(t) == t - (t % TicksPerSecond)

\* incremental_windows, which get_deletion_receipt calls for its checks
Legal(begin, end) == begin < end /\ end - begin <= MaxRange

CompleteUpToBegin(begin, end, earliest, latest) ==   \* mutant: the wrong end is compared
  /\ earliest # Unsaid /\ latest # Unsaid
  /\ earliest <= begin /\ latest >= begin

CoverageComplete(begin, end, earliest, latest) ==
  /\ earliest # Unsaid /\ latest # Unsaid
  /\ earliest <= begin /\ latest >= end

\* `expected` is feed_expected_complete and bounded_read_complete.
GetDeletionReceipt(run, begin, end, expected) ==
  /\ held = {} /\ Legal(begin, end)
  /\ \E covered \in {t \in Times : t <= now /\ now - t <= Lag} :
     \E dates \in {<<oldest, covered>>, <<Unsaid, Unsaid>>} :
       held' = {[run |-> run, begin |-> begin, end |-> end,
                 deleted |-> Feed(Second(begin), Second(end), covered), dates |-> dates,
                 complete |-> expected /\ CoverageComplete(begin, end, dates[1], dates[2])]}
  /\ outcome' = "NONE"
  /\ UNCHANGED <<vendor, stored>>

\* deletion_receipt_id, an ideal hash: neither the run nor `complete` is in it
ReceiptIdOfWindow(h) == <<h.begin, h.end>>   \* mutant: the answer is not hashed either

ReceiptId(h) == <<h.begin, h.end, h.deleted, h.dates>>

Ids(h) == {row[1] : row \in h.deleted}

Row(h) ==
  [id |-> ReceiptId(h), run |-> h.run, begin |-> h.begin, end |-> h.end, ids |-> Ids(h),
   state |-> IF h.complete THEN "DELETIONS_CONFIRMED" ELSE "DELETION_UNKNOWN"]

PersistDeletionReceipt(h) ==
  /\ h \in held
  /\ IF h.run \in runs /\ \A r \in receipts : r.id # ReceiptId(h)
     THEN /\ Cardinality(receipts) < MaxReceipts
          /\ receipts' = receipts \cup {Row(h)}
          /\ tombstones' = tombstones \cup
               {[run |-> h.run, record |-> x, receipt |-> ReceiptId(h)] :
                  x \in {y \in Ids(h) : \A t \in tombstones : t.run = h.run => t.record # y}}
          /\ outcome' = "OK"
     ELSE outcome' = "RAISED" /\ UNCHANGED <<receipts, tombstones>>
  /\ UNCHANGED <<vendor, held, runs>>

\* the driver is done with it, or dies
Drop ==
  /\ held # {}
  /\ held' = {}
  /\ outcome' = "NONE"
  /\ UNCHANGED <<vendor, stored>>

ResetRun(run) ==
  /\ run \in runs
  /\ runs' = runs \ {run}
  /\ receipts' = {r \in receipts : r.run # run}
  /\ tombstones' = {t \in tombstones : t.run # run}
  /\ outcome' = "OK"
  /\ UNCHANGED <<vendor, held>>

Next ==
  \/ Tick \/ Forget
  \/ \E x \in Records : Delete(x) \/ Restore(x)
  \/ \E run \in Runs, w \in Windows, expected \in BOOLEAN :
       GetDeletionReceipt(run, w[1], w[2], expected)
  \/ \E h \in held : PersistDeletionReceipt(h)
  \/ Drop
  \/ \E run \in Runs : ResetRun(run)

Spec == Init /\ [][Next]_vars

-----------------------------------------------------------------------------
TypeOK ==
  /\ now \in Times /\ deletedAt \in [Records -> Times \cup {Live}] /\ oldest \in Times
  /\ Cardinality(held) <= 1 /\ Cardinality(receipts) <= MaxReceipts
  /\ \A r, s \in receipts : r.id = s.id => r = s
  /\ \A t, u \in tombstones : t.run = u.run /\ t.record = u.record => t = u

\* A tombstone stands beside a receipt of its own run that lists the record:
\* purging a run leaves no tombstone of another without its reason.
TombstonesAreExplained ==
  \A t \in tombstones :
    \E r \in receipts : r.id = t.receipt /\ r.run = t.run /\ t.record \in r.ids

\* A receipt that says CONFIRMED allows to infer from absence: what was deleted
\* in its window, and not restored or forgotten since, has a tombstone.  But the
\* request names whole seconds, so the last one begun is left to the next window.
ConfirmedMeansAll ==
  \A r \in receipts : r.state = "DELETIONS_CONFIRMED" =>
    \A x \in Records :
      deletedAt[x] \in r.begin..(Second(r.end) - 1) =>
        \E t \in tombstones : t.run = r.run /\ t.record = x

\* What the store says of deletions agrees with the feed it was read from.
DeletionsAreAccountedFor == TypeOK /\ TombstonesAreExplained /\ ConfirmedMeansAll

\* A receipt that is handed over again is refused, and nothing was left to do:
\* its tombstones are there.  Only when another run has stored the same
\* answer to the same window is a first call refused, and its run then has none.
RefusalsLoseNothing ==
  [][\A h \in held :
       outcome' = "RAISED" /\ h.run \in runs =>
         \/ \A x \in Ids(h) : \E t \in tombstones : t.run = h.run /\ t.record = x
         \/ \E r \in receipts : r.id = ReceiptId(h) /\ r.run # h.run]_vars

=============================================================================
